---- MODULE Spec2Model ----
(***************************************************************************)
(* Borehole_Sections_Streamlit: the AGS group parser, the per-file         *)
(* materializer, the multi-file merge and the coordinate conversion, as    *)
(* they are written in src/core/ags_parser.py (the "core" pipeline) and in *)
(* src/data_loader.py (the pipeline src/app.py runs).                      *)
(*                                                                         *)
(* Text is modelled after csv.reader: a content is a sequence of rows, a   *)
(* row a sequence of cells, a cell a string.  Numbers in cells are integer *)
(* literals; every other text is "not a number" for pd.to_numeric.         *)
(***************************************************************************)
EXTENDS Integers, Sequences, FiniteSets, TLC

VARIABLES
    content,    \* parser workbench: the rows of the text being parsed
    parsed,     \* parser workbench: what the last parse call returned
    files,      \* the upload: sequence of [name, content], in upload order
    results,    \* parse_multiple_ags_files: results[i] of parse_ags_file
    finished,   \* parse_multiple_ags_files: the positions in the order the workers finished
    combined,   \* parse_multiple_ags_files: the merged GEOL/LOCA/ABBR tables
    outcome,    \* parse_multiple_ags_files: AGSData or the exception raised
    returned,   \* parse_ags_files: what the caller receives
    loaded,     \* load_all_loca_data: what the caller receives
    pc,         \* "upload", "parsing" (worker pool busy), "returned", "loaded"
    log,        \* render_borehole_log: the borehole asked for and what was rendered
    selection,  \* map selection: the last filter call and what it returned
    geometry_cache, \* map selection: the entry of st.cache_data(create_geometry)
    filter_cache,   \* map selection: the entries of the cached _filter_by_* calls
    session,    \* map selection: st.session_state of src/app.py
    calls,      \* map selection: the number of filter calls so far
    plot,       \* plotting: the plot keys of st.session_state and what the last run drew
    utm,        \* corridor projection: the medians handed in and the zone and CRS derived
    section     \* section line: the selected boreholes, the last derivation and what it gave

vars ==
    <<content, parsed, files, results, finished, combined, outcome, returned, loaded, pc,
      log, selection, geometry_cache, filter_cache, session, calls, plot, utm, section>>

parserVars == <<content, parsed>>
pipelineVars ==
    <<files, results, finished, combined, outcome, returned, loaded, pc, log>>
selectVars == <<selection, geometry_cache, filter_cache, session, calls, plot>>
sectionVars == <<section>>
zoneVars == <<utm>>
parserRest == <<pipelineVars, selectVars, sectionVars, zoneVars>>
pipelineRest == <<parserVars, selectVars, sectionVars, zoneVars>>

-----------------------------------------------------------------------------
(* Bounds *)

MaxRows == 4        \* rows of a content on the parser workbench
MaxFiles == 2       \* files of one upload
MaxCalls == 2       \* selection events of one session
MaxRuns == 2        \* runs of the script after one popup click
MaxCandidates == 2  \* candidates whose median position sets the UTM zone
MaxBoreholes == 4   \* boreholes of a selection a section is derived from

-----------------------------------------------------------------------------
(* Strings and values *)

Range(s) == {s[i] : i \in DOMAIN s}

Min(a, b) == IF a <= b THEN a ELSE b

Max(a, b) == IF a >= b THEN a ELSE b

Char(s, i) == SubSeq(s, i, i)

RECURSIVE lstrip(_)
lstrip(s) ==
    IF Len(s) > 0 /\ Char(s, 1) = " " THEN lstrip(SubSeq(s, 2, Len(s))) ELSE s

RECURSIVE rstrip(_)
rstrip(s) ==
    IF Len(s) > 0 /\ Char(s, Len(s)) = " "
    THEN rstrip(SubSeq(s, 1, Len(s) - 1))
    ELSE s

\* str.strip()
strip(s) == rstrip(lstrip(s))

\* str.upper() on the letters the AGS type codes use
UpperOf(c) ==
    CASE c = "d" -> "D" [] c = "p" -> "P" [] c = "m" -> "M" [] c = "c" -> "C"
      [] c = "s" -> "S" [] c = "f" -> "F" [] c = "i" -> "I" [] c = "n" -> "N"
      [] c = "o" -> "O" [] OTHER -> c

RECURSIVE upper(_)
upper(s) ==
    IF Len(s) = 0 THEN s
    ELSE UpperOf(Char(s, 1)) \o upper(SubSeq(s, 2, Len(s)))

\* s.replace(c, "")
RECURSIVE remove_char(_, _)
remove_char(s, c) ==
    IF Len(s) = 0 THEN s
    ELSE IF Char(s, 1) = c THEN remove_char(SubSeq(s, 2, Len(s)), c)
    ELSE Char(s, 1) \o remove_char(SubSeq(s, 2, Len(s)), c)

DigitChars == "0123456789"

IsDigit(c) == \E d \in 1..10 : Char(DigitChars, d) = c

DigitVal(c) == (CHOOSE d \in 1..10 : Char(DigitChars, d) = c) - 1

IsDigits(s) == Len(s) > 0 /\ \A i \in 1..Len(s) : IsDigit(Char(s, i))

RECURSIVE DigitsVal(_)
DigitsVal(s) ==
    IF Len(s) = 0 THEN 0
    ELSE 10 * DigitsVal(SubSeq(s, 1, Len(s) - 1)) + DigitVal(Char(s, Len(s)))

\* A table cell: a string, a number or the missing marker (NaN / None / pd.NA).
Str(s) == [k |-> "str", s |-> s, n |-> 0]
Num(n) == [k |-> "num", s |-> "", n |-> n]
NaN == [k |-> "nan", s |-> "", n |-> 0]

isna(v) == v.k = "nan"

\* float(text): an integer literal with optional sign and surrounding blanks
float_ok(text) ==
    LET t == strip(text)
    IN  \/ IsDigits(t)
        \/ Len(t) > 1 /\ Char(t, 1) = "-" /\ IsDigits(SubSeq(t, 2, Len(t)))

float_of(text) ==
    LET t == strip(text)
    IN  IF Char(t, 1) = "-" THEN 0 - DigitsVal(SubSeq(t, 2, Len(t)))
        ELSE DigitsVal(t)

\* pd.to_numeric(value, errors="coerce") on one cell
to_numeric(v) ==
    IF v.k = "str" THEN (IF float_ok(v.s) THEN Num(float_of(v.s)) ELSE NaN)
    ELSE v

\* str(value) as an f-string formats it
format_value(v) ==
    CASE v.k = "str" -> v.s
      [] v.k = "num" -> ToString(v.n) \o ".0"
      [] OTHER -> "nan"

-----------------------------------------------------------------------------
(* The AGS group parser of the core: parse_ags_group *)

None == [kind |-> "None"]

IsNone(x) == x.kind = "None"

\* dict(zip(keys, values)): zip stops at the shorter sequence and a key that
\* occurs twice keeps its last value.
dict_zip(keys, values) ==
    LET n == Min(Len(keys), Len(values))
    IN  [h \in {keys[i] : i \in 1..n} |->
            values[CHOOSE i \in 1..n :
                      /\ keys[i] = h
                      /\ \A j \in 1..n : keys[j] = h => j <= i]]

\* row[1:]
rest(row) == SubSeq(row, 2, Len(row))

\* values = row[1 : len(headings) + 1], padded with "" and stripped
data_values(row, headings) ==
    [i \in 1..Len(headings) |->
        IF i + 1 <= Len(row) THEN strip(row[i + 1]) ELSE ""]

ScanStart ==
    [in_group |-> FALSE, stopped |-> FALSE, headings |-> <<>>,
     units |-> <<>>, types |-> <<>>, data |-> <<>>]

\* One iteration of "for row in rows" of parse_ags_group.
ags_group_row(st, row, group_name) ==
    IF Len(row) < 2 THEN st
    ELSE IF row[1] = "GROUP" THEN
        IF st.in_group THEN [st EXCEPT !.stopped = TRUE]
        ELSE [st EXCEPT !.in_group = (row[2] = group_name)]
    ELSE IF ~st.in_group THEN st
    ELSE IF row[1] = "HEADING" THEN
        [st EXCEPT !.headings = [i \in 1..(Len(row) - 1) |-> strip(row[i + 1])]]
    ELSE IF row[1] = "UNIT" THEN
        [st EXCEPT !.units = dict_zip(st.headings, rest(row))]
    ELSE IF row[1] = "TYPE" THEN
        [st EXCEPT !.types = dict_zip(st.headings, rest(row))]
    ELSE IF row[1] = "DATA" THEN
        [st EXCEPT !.data =
            Append(@, dict_zip(st.headings, data_values(row, st.headings)))]
    ELSE st

RECURSIVE ags_group_scan(_, _, _, _)
ags_group_scan(st, rows, i, group_name) ==
    IF i > Len(rows) \/ st.stopped THEN st
    ELSE ags_group_scan(ags_group_row(st, rows[i], group_name), rows, i + 1,
                        group_name)

\* len(row) != len(headings) for some record: the "Validate data structure" test
inconsistent(st) ==
    \E r \in 1..Len(st.data) :
        Cardinality(DOMAIN st.data[r]) # Len(st.headings)

AGSGroup(group_name, st) ==
    [kind |-> "AGSGroup", name |-> group_name, headings |-> st.headings,
     units |-> st.units, types |-> st.types, data |-> st.data]

parse_ags_group(rows, group_name) ==
    LET st == ags_group_scan(ScanStart, rows, 1, group_name)
    IN  IF Len(st.headings) = 0 \/ Len(st.data) = 0 THEN None
        ELSE IF inconsistent(st) THEN None
        ELSE AGSGroup(group_name, st)

-----------------------------------------------------------------------------
(* Tables (pandas DataFrame): ordered column names and rows of cells *)

\* list(...): the sequence with every element computed, as a Python list holds it
list(s) == s \o <<>>

DataFrame(columns, rows) ==
    [kind |-> "DataFrame", columns |-> list(columns),
     rows |-> list([r \in 1..Len(rows) |-> list(rows[r])])]

EmptyFrame == DataFrame(<<>>, <<>>)

\* df.empty: no rows or no columns
empty(df) == Len(df.rows) = 0 \/ Len(df.columns) = 0

has_column(df, c) == \E i \in 1..Len(df.columns) : df.columns[i] = c

col_index(df, c) ==
    CHOOSE i \in 1..Len(df.columns) :
        df.columns[i] = c /\ \A j \in 1..(i - 1) : df.columns[j] # c

\* df[c] of row r
cell(df, r, c) == df.rows[r][col_index(df, c)]

\* the column c as a sequence of cells
column(df, c) == list([r \in 1..Len(df.rows) |-> cell(df, r, c)])

\* df[c] = values: assigns an existing column or appends a new one
set_column(df, c, values) ==
    IF has_column(df, c)
    THEN DataFrame(df.columns,
            [r \in 1..Len(df.rows) |->
                [df.rows[r] EXCEPT ![col_index(df, c)] = values[r]]])
    ELSE DataFrame(Append(df.columns, c),
            [r \in 1..Len(df.rows) |-> Append(df.rows[r], values[r])])

\* the subsequence of s at the indices where mask is TRUE
RECURSIVE select(_, _, _)
select(s, mask, i) ==
    IF i > Len(s) THEN <<>>
    ELSE (IF mask[i] THEN <<s[i]>> ELSE <<>>) \o select(s, mask, i + 1)

\* df[mask]
filter_rows(df, mask) == DataFrame(df.columns, select(df.rows, mask, 1))

-----------------------------------------------------------------------------
(* The group parser of src/data_loader.py: parse_group *)

Raise(exc) == [kind |-> "raise", exc |-> exc]

Raised(x) == x.kind = "raise"

LoaderStart == [in_group |-> FALSE, stopped |-> FALSE, headings |-> <<>>, data |-> <<>>]

\* One iteration of "for row in parsed" of parse_group.
group_row(st, row, group_name) ==
    IF Len(row) > 0 /\ row[1] = "GROUP" /\ Len(row) > 1 /\ row[2] = group_name
    THEN [st EXCEPT !.in_group = TRUE]
    ELSE IF st.in_group /\ Len(row) > 0 /\ row[1] = "HEADING"
    THEN [st EXCEPT !.headings = rest(row)]
    ELSE IF st.in_group /\ Len(row) > 0 /\ row[1] = "DATA"
    THEN [st EXCEPT !.data =
            Append(@, SubSeq(row, 2, Min(Len(row), Len(st.headings) + 1)))]
    ELSE IF st.in_group /\ Len(row) > 0 /\ row[1] = "GROUP"
            /\ (Len(row) < 2 \/ row[2] # group_name)
    THEN [st EXCEPT !.stopped = TRUE]
    ELSE st

RECURSIVE group_scan(_, _, _, _)
group_scan(st, rows, i, group_name) ==
    IF i > Len(rows) \/ st.stopped THEN st
    ELSE group_scan(group_row(st, rows[i], group_name), rows, i + 1, group_name)

\* the widest of the collected rows (0 when there is none)
RECURSIVE max_width(_, _)
max_width(data, i) ==
    IF i > Len(data) THEN 0 ELSE Max(Len(data[i]), max_width(data, i + 1))

\* pd.DataFrame(data, columns=headings) over a list of lists: the rows are padded
\* with None to the widest row, and the constructor raises ValueError when that
\* width is not the number of column names passed.
frame_of_lists(data, headings) ==
    IF Len(data) > 0 /\ max_width(data, 1) # Len(headings)
    THEN Raise("ValueError")
    ELSE DataFrame(headings,
            [r \in 1..Len(data) |->
                [i \in 1..Len(headings) |->
                    IF i <= Len(data[r]) THEN Str(data[r][i]) ELSE NaN]])

parse_group(rows, group_name) ==
    LET st == group_scan(LoaderStart, rows, 1, group_name)
    IN  frame_of_lists(st.data, st.headings)

-----------------------------------------------------------------------------
(* The group parser of src/old_files/data_loader.py: parse_group *)

\* One iteration of "for row in parsed" of the old parse_group.
old_group_row(st, row, group_name) ==
    IF Len(row) = 0 THEN st
    ELSE IF row[1] = "GROUP" /\ Len(row) > 1
    THEN [st EXCEPT !.in_group = (row[2] = group_name)]
    ELSE IF ~st.in_group THEN st
    ELSE IF row[1] = "HEADING" THEN [st EXCEPT !.headings = rest(row)]
    ELSE IF row[1] = "DATA"
    THEN [st EXCEPT !.data =
            Append(@, SubSeq(row, 2, Min(Len(row), Len(st.headings) + 1)))]
    ELSE IF row[1] = "GROUP" THEN [st EXCEPT !.stopped = TRUE]
    ELSE st

RECURSIVE old_group_scan(_, _, _, _)
old_group_scan(st, rows, i, group_name) ==
    IF i > Len(rows) \/ st.stopped THEN st
    ELSE old_group_scan(old_group_row(st, rows[i], group_name), rows, i + 1,
                        group_name)

\* the table of the scanned rows: empty without headings or data, and empty
\* when the constructor raises (the exception is caught)
old_frame(st) ==
    IF Len(st.headings) = 0 \/ Len(st.data) = 0 THEN EmptyFrame
    ELSE IF Raised(frame_of_lists(st.data, st.headings)) THEN EmptyFrame
    ELSE frame_of_lists(st.data, st.headings)

old_parse_group(rows, group_name) ==
    old_frame(old_group_scan(LoaderStart, rows, 1, group_name))

-----------------------------------------------------------------------------
(* Coordinates: src/utils/coordinates.py and convert_coordinates *)

UK_MIN_EASTING == 0
UK_MAX_EASTING == 700000
UK_MIN_NORTHING == 0
UK_MAX_NORTHING == 1300000
BoundsTolerance == 10000

validate_coordinates(easting, northing) ==
    /\ UK_MIN_EASTING - BoundsTolerance <= easting
    /\ easting <= UK_MAX_EASTING + BoundsTolerance
    /\ UK_MIN_NORTHING - BoundsTolerance <= northing
    /\ northing <= UK_MAX_NORTHING + BoundsTolerance

\* transformer.transform(easting, northing) of pyproj, EPSG:27700 -> EPSG:4326:
\* an external function; a fixed deterministic stand-in in whole degrees,
\* returned as <<lon, lat>>.
transform(easting, northing) ==
    <<(easting \div 70000) - 8, 49 + (northing \div 111000)>>

\* osgb36_to_latlon: raises ValueError outside the validity bounds, else <<lat, lon>>
osgb36_to_latlon(easting, northing) ==
    IF ~validate_coordinates(easting, northing) THEN Raise("ValueError")
    ELSE [kind |-> "latlon",
          lat |-> transform(easting, northing)[2],
          lon |-> transform(easting, northing)[1]]

\* clean_coordinate: None for a missing, empty or unparsable value
clean_coordinate(v) ==
    IF isna(v) THEN NaN
    ELSE IF v.k = "num" THEN v
    ELSE IF v.s = "" THEN NaN
    ELSE to_numeric(Str(remove_char(strip(v.s), ",")))

map_cells(values, f(_)) == list([r \in 1..Len(values) |-> f(values[r])])

\* the loop "for idx, row in df.iterrows()": a row whose conversion raises keeps
\* the lat / lon it was initialized with (pd.NA) and the loop continues
converted_lat(e, n) ==
    IF Raised(osgb36_to_latlon(e.n, n.n)) THEN NaN
    ELSE Num(osgb36_to_latlon(e.n, n.n).lat)

converted_lon(e, n) ==
    IF Raised(osgb36_to_latlon(e.n, n.n)) THEN NaN
    ELSE Num(osgb36_to_latlon(e.n, n.n).lon)

\* "for col in [LOCA_NATE, LOCA_NATN]: if col in df.columns: clean it"
clean_column(df, c) ==
    IF has_column(df, c)
    THEN set_column(df, c, map_cells(column(df, c), clean_coordinate))
    ELSE df

has_coordinates(df) == has_column(df, "LOCA_NATE") /\ has_column(df, "LOCA_NATN")

\* ~invalid_mask: the rows with both coordinates present
valid_mask(df) ==
    [r \in 1..Len(df.rows) |->
        /\ ~isna(cell(df, r, "LOCA_NATE"))
        /\ ~isna(cell(df, r, "LOCA_NATN"))]

\* df[~invalid_mask]
drop_invalid(df) == filter_rows(df, valid_mask(df))

\* lat / lon initialized to pd.NA, then filled row by row; every row stays
convert_rows(df) ==
    IF empty(df) THEN df
    ELSE set_column(
            set_column(df, "lat",
                [r \in 1..Len(df.rows) |->
                    converted_lat(cell(df, r, "LOCA_NATE"), cell(df, r, "LOCA_NATN"))]),
            "lon",
            [r \in 1..Len(df.rows) |->
                converted_lon(cell(df, r, "LOCA_NATE"), cell(df, r, "LOCA_NATN"))])

\* convert_coordinates once the two columns are cleaned
convert_cleaned(df) ==
    IF ~has_coordinates(df) THEN df ELSE convert_rows(drop_invalid(df))

convert_coordinates(df) ==
    convert_cleaned(clean_column(clean_column(df, "LOCA_NATE"), "LOCA_NATN"))

-----------------------------------------------------------------------------
(* The materializer of the core: parse_ags_file *)

GroupNames == <<"GEOL", "LOCA", "ABBR">>

\* AppConfig.AGS_REQUIRED_COLUMNS
AGS_REQUIRED_COLUMNS ==
    [GEOL |-> <<"LOCA_ID", "GEOL_TOP", "GEOL_BASE", "GEOL_LEG">>,
     LOCA |-> <<"LOCA_ID", "LOCA_GL", "LOCA_FDEP", "LOCA_LAT", "LOCA_LON">>,
     ABBR |-> <<"ABBR_CODE", "ABBR_DESC">>]

numeric_types ==
    {"0DP", "1DP", "2DP", "3DP", "4DP", "5DP", "6DP", "MC", "SF", "SCI",
     "2NO", "3NO", "4NO"}

\* col is one of get_numeric_columns(headings, types)
is_numeric_column(col, types) ==
    (IF col \in DOMAIN types THEN upper(strip(types[col])) ELSE "") \in numeric_types

\* the names of s without repetition, in order of first occurrence
RECURSIVE unique(_, _)
unique(s, i) ==
    IF i > Len(s) THEN <<>>
    ELSE (IF \E j \in 1..(i - 1) : s[j] = s[i] THEN <<>> ELSE <<s[i]>>)
         \o unique(s, i + 1)

RECURSIVE as_sequence(_)
as_sequence(S) ==
    IF S = {} THEN <<>>
    ELSE LET x == CHOOSE y \in S : TRUE IN <<x>> \o as_sequence(S \ {x})

\* pd.DataFrame(group.data) over a list of dicts: one column per key met, a
\* missing key reads NaN.  (The order of the columns is not observed below.)
frame_of_dicts(data, headings) ==
    LET keys == UNION {DOMAIN data[r] : r \in 1..Len(data)}
        cols == SelectSeq(unique(headings, 1), LAMBDA h : h \in keys)
                  \o as_sequence(keys \ Range(headings))
    IN  DataFrame(cols,
            [r \in 1..Len(data) |->
                [i \in 1..Len(cols) |->
                    IF cols[i] \in DOMAIN data[r] THEN Str(data[r][cols[i]])
                    ELSE NaN]])

\* df[c] = pd.to_numeric(df[c], errors="coerce") for every c of cols
coerce_columns(df, cols) ==
    DataFrame(df.columns,
        [r \in 1..Len(df.rows) |->
            [i \in 1..Len(df.columns) |->
                IF df.columns[i] \in cols THEN to_numeric(df.rows[r][i])
                ELSE df.rows[r][i]]])

coerce_column(df, c) == coerce_columns(df, {c})

\* some row has both an Easting and a Northing
has_valid_pair(df) ==
    \E r \in 1..Len(df.rows) :
        /\ ~isna(cell(df, r, "LOCA_NATE"))
        /\ ~isna(cell(df, r, "LOCA_NATN"))

\* "if valid_coords.any(): df = convert_coordinates(df)"
convert_if_valid(df) == IF has_valid_pair(df) THEN convert_coordinates(df) ELSE df

\* "First try OSGB36 coordinates"
osgb_coordinates(df) ==
    IF has_coordinates(df)
    THEN convert_if_valid(coerce_columns(df, {"LOCA_NATE", "LOCA_NATN"}))
    ELSE df

direct_latlon(df) ==
    set_column(set_column(df, "lat", column(df, "LOCA_LAT")),
               "lon", column(df, "LOCA_LON"))

\* "Then try direct lat/lon": lat / lon are taken from LOCA_LAT / LOCA_LON
direct_coordinates(df) ==
    IF has_column(df, "LOCA_LAT") /\ has_column(df, "LOCA_LON")
    THEN direct_latlon(coerce_columns(df, {"LOCA_LAT", "LOCA_LON"}))
    ELSE df

\* the LOCA branch of parse_ags_file: OSGB36 first, then direct lat / lon
loca_coordinates(df) == direct_coordinates(osgb_coordinates(df))

missing_required(group_name, df) ==
    \E i \in 1..Len(AGS_REQUIRED_COLUMNS[group_name]) :
        ~has_column(df, AGS_REQUIRED_COLUMNS[group_name][i])

numeric_columns(df, types) ==
    {c \in Range(df.columns) : is_numeric_column(c, types)}

\* "if not df.empty: result[group_name] = df"
stored(df) == IF empty(df) THEN None ELSE df

\* the required-column check ("continue" when one is missing), then the
\* numeric coercion by type code
checked(group_name, df, types) ==
    IF missing_required(group_name, df) THEN None
    ELSE stored(coerce_columns(df, numeric_columns(df, types)))

group_coordinates(group_name, df) ==
    IF group_name = "LOCA" THEN loca_coordinates(df) ELSE df

\* "if group:" and what follows for one group of the file
group_frame(group, group_name) ==
    IF IsNone(group) THEN None
    ELSE checked(group_name,
            group_coordinates(group_name, frame_of_dicts(group.data, group.headings)),
            group.types)

\* the table parse_ags_file stores under result[group_name], or None when the
\* group is absent, rejected for a missing required column, or empty
materialize(rows, group_name) ==
    group_frame(parse_ags_group(rows, group_name), group_name)

\* "if not result: raise ValueError(No valid data found in file)"
file_result(result) ==
    IF \A g \in Range(GroupNames) : IsNone(result[g])
    THEN Raise("ValueError: No valid data found in file")
    ELSE [kind |-> "result", tables |-> result]

\* parse_ags_file(content, filename): the dict of tables, or ValueError when no
\* group of the file gave one
parse_ags_file(rows) ==
    file_result([GEOL |-> materialize(rows, "GEOL"),
                 LOCA |-> materialize(rows, "LOCA"),
                 ABBR |-> materialize(rows, "ABBR")])

-----------------------------------------------------------------------------
(* The merge of the core: parse_multiple_ags_files and parse_ags_files *)

SuffixLen == 19

\* the position of the last "." of name, 0 when there is none
RECURSIVE last_dot(_, _)
last_dot(name, i) ==
    IF i = 0 THEN 0
    ELSE IF Char(name, i) = "." THEN i
    ELSE last_dot(name, i - 1)

\* os.path.splitext(name)[0]: the name up to its last dot; a name whose only
\* dot is its first character has no extension
splitext_root(name) ==
    LET d == last_dot(name, Len(name))
    IN  IF d <= 1 THEN name ELSE SubSeq(name, 1, d - 1)

\* os.path.splitext(name)[0][:19]
suffix_of(name) ==
    SubSeq(splitext_root(name), 1, Min(Len(splitext_root(name)), SuffixLen))

\* f"{x}_{suffix}" if x in existing_ids else x
rewrite_id(x, suffix, existing_ids) ==
    IF x \in existing_ids THEN Str(format_value(x) \o "_" \o suffix) ELSE x

\* pd.concat([a, b], ignore_index=True): the columns of a, then the new ones of b
concat(a, b) ==
    LET cols == a.columns \o SelectSeq(b.columns, LAMBDA c : ~has_column(a, c))
        widen(df) ==
            [r \in 1..Len(df.rows) |->
                [i \in 1..Len(cols) |->
                    IF has_column(df, cols[i]) THEN cell(df, r, cols[i]) ELSE NaN]]
    IN  DataFrame(cols, widen(a) \o widen(b))

\* the name the suffix of the file at position i is taken from: files[0].name
suffix_source(names, i) == names[1]

\* df["original_LOCA_ID"] = df["LOCA_ID"].copy()
with_original_id(df) == set_column(df, "original_LOCA_ID", column(df, "LOCA_ID"))

\* df["LOCA_ID"] = df["LOCA_ID"].apply(lambda x: ...): every row is rewritten
\* against the same existing_ids
rewrite_ids(df, suffix, existing_ids) ==
    set_column(df, "LOCA_ID",
        [r \in 1..Len(df.rows) |->
            rewrite_id(cell(df, r, "LOCA_ID"), suffix, existing_ids)])

\* "Convert coordinates only if both columns exist"
merge_coordinates(df) == IF has_coordinates(df) THEN convert_coordinates(df) ELSE df

\* "Special handling for LOCA group" for the file at position i
merge_loca(df, names, i, existing_ids) ==
    rewrite_ids(with_original_id(merge_coordinates(df)),
                suffix_of(suffix_source(names, i)), existing_ids)

EmptyCombined == [GEOL |-> EmptyFrame, LOCA |-> EmptyFrame, ABBR |-> EmptyFrame]

MergeStart == [combined |-> EmptyCombined, existing_ids |-> {}]

\* "Combine with existing data", and existing_ids.update(...) for LOCA
merge_frame(acc, df, group) ==
    [combined |->
        [acc.combined EXCEPT ![group] = IF empty(@) THEN df ELSE concat(@, df)],
     existing_ids |->
        IF group = "LOCA"
        THEN acc.existing_ids \cup Range(column(df, "LOCA_ID"))
        ELSE acc.existing_ids]

\* "for group in [GEOL, LOCA, ABBR]" for the result of the file at position i
merge_group(acc, result, group, names, i) ==
    IF IsNone(result.tables[group]) \/ empty(result.tables[group]) THEN acc
    ELSE merge_frame(acc,
            IF group = "LOCA"
            THEN merge_loca(result.tables[group], names, i, acc.existing_ids)
            ELSE result.tables[group],
            group)

merge_result(acc, result, names, i) ==
    merge_group(merge_group(merge_group(acc, result, "GEOL", names, i),
                            result, "LOCA", names, i),
                result, "ABBR", names, i)

\* "for result in results"
RECURSIVE merge_results(_, _, _, _)
merge_results(acc, rs, names, i) ==
    IF i > Len(rs) THEN acc
    ELSE merge_results(merge_result(acc, rs[i], names, i), rs, names, i + 1)

\* the validation as it would read if only both tables empty were fatal
no_valid_data_both(c) == empty(c.GEOL) /\ empty(c.LOCA)

\* the validation as it would read if it looked at the GEOL table alone
no_valid_data_geol(c) == empty(c.GEOL)

\* "Validate combined data"
no_valid_data(c) == empty(c.GEOL) \/ empty(c.LOCA)

AGSData(c) ==
    [kind |-> "AGSData", geol_df |-> c.GEOL, loca_df |-> c.LOCA, abbr_df |-> c.ABBR]

\* what parse_multiple_ags_files does with the merged tables: raise or return
merge_outcome(c) ==
    IF no_valid_data(c) THEN Raise("ValueError: No valid GEOL or LOCA data")
    ELSE AGSData(c)

-----------------------------------------------------------------------------
(* The loader src/app.py runs: load_all_loca_data *)

LoadStart == [all_loca |-> <<>>, existing_ids |-> {}, raised |-> None]

\* "if col in loca_df.columns: loca_df[col] = pd.to_numeric(...)"
coerce_if_present(df, c) == IF has_column(df, c) THEN coerce_column(df, c) ELSE df

\* loca_df["ags_file"] = fname
tag_file(df, name) ==
    set_column(df, "ags_file", [r \in 1..Len(df.rows) |-> Str(name)])

\* existing_ids.update(...), all_loca.append(loca_df)
load_frame(acc, df, name) ==
    [all_loca |-> Append(acc.all_loca, tag_file(df, name)),
     existing_ids |-> acc.existing_ids \cup Range(column(df, "LOCA_ID")),
     raised |-> None]

\* the suffix comes from the name of the file at hand; loca_df["LOCA_ID"]
\* raises KeyError when the column is missing
load_kept(acc, df, name) ==
    IF ~has_column(df, "LOCA_ID") THEN [acc EXCEPT !.raised = Raise("KeyError")]
    ELSE load_frame(acc,
            rewrite_ids(with_original_id(df), suffix_of(name), acc.existing_ids),
            name)

\* dropna(subset=[LOCA_NATE, LOCA_NATN]): KeyError when a column is missing
load_numeric(acc, df, name) ==
    IF ~has_coordinates(df) THEN [acc EXCEPT !.raised = Raise("KeyError")]
    ELSE load_kept(acc, drop_invalid(df), name)

load_parsed(acc, df, name) ==
    IF Raised(df) THEN [acc EXCEPT !.raised = df]
    ELSE load_numeric(acc,
            coerce_if_present(coerce_if_present(df, "LOCA_NATE"), "LOCA_NATN"),
            name)

\* one iteration of "for fname, content in ags_files"
load_file(acc, file) ==
    load_parsed(acc, parse_group(file.content, "LOCA"), file.name)

RECURSIVE load_files(_, _, _)
load_files(acc, fs, i) ==
    IF i > Len(fs) \/ Raised(acc.raised) THEN acc
    ELSE load_files(load_file(acc, fs[i]), fs, i + 1)

RECURSIVE concat_all(_, _)
concat_all(frames, i) ==
    IF i = 1 THEN frames[1] ELSE concat(concat_all(frames, i - 1), frames[i])

\* filename_map[fname] = content: a later file of the same name overwrites
filename_map_of(fs) ==
    [name \in {fs[i].name : i \in 1..Len(fs)} |->
        fs[CHOOSE i \in 1..Len(fs) :
              /\ fs[i].name = name
              /\ \A j \in 1..Len(fs) : fs[j].name = name => j <= i
          ].content]

\* "return pd.concat(all_loca, ignore_index=True), filename_map"; pd.concat
\* raises ValueError on an empty list
load_result(acc, fs) ==
    IF Raised(acc.raised) THEN acc.raised
    ELSE IF Len(acc.all_loca) = 0 THEN Raise("ValueError")
    ELSE [kind |-> "loaded",
          loca_df |-> concat_all(acc.all_loca, Len(acc.all_loca)),
          filename_map |-> filename_map_of(fs)]

\* load_all_loca_data(ags_files): the merged location table, or what it raised
load_all_loca_data(fs) == load_result(load_files(LoadStart, fs, 1), fs)

-----------------------------------------------------------------------------
(* The borehole log: src/borehole_log.py render_borehole_log *)

\* a in b for two strings
is_substring(a, b) ==
    \E i \in 1..(Len(b) - Len(a) + 1) : SubSeq(b, i, i + Len(a) - 1) = a

\* "loca_id in content": the id occurs somewhere in the text of the file (an id
\* has no comma, quote or line break, so it occurs inside one cell)
id_in_content(loca_id, rows) ==
    \E r \in 1..Len(rows) : \E c \in 1..Len(rows[r]) :
        is_substring(loca_id, rows[r][c])

\* the positions of the files whose name is a key of filename_map, in the order
\* the keys were inserted
key_positions(fs) ==
    {i \in 1..Len(fs) : \A j \in 1..(i - 1) : fs[j].name # fs[i].name}

\* "for fname, content in filename_map.items(): if loca_id in content"
map_hits(loca_id, filename_map, fs) ==
    {i \in key_positions(fs) : id_in_content(loca_id, filename_map[fs[i].name])}

\* "fallback: search in ags_files"
list_hits(loca_id, fs) ==
    {i \in 1..Len(fs) : id_in_content(loca_id, fs[i].content)}

least(S) == CHOOSE i \in S : \A j \in S : i <= j

\* "Find which AGS file this borehole belongs to": the file name and the content
\* filename_map holds for it afterwards, or None
find_ags_file(loca_id, filename_map, fs) ==
    IF map_hits(loca_id, filename_map, fs) # {}
    THEN [kind |-> "file",
          name |-> fs[least(map_hits(loca_id, filename_map, fs))].name,
          content |-> filename_map[fs[least(map_hits(loca_id, filename_map, fs))].name]]
    ELSE IF list_hits(loca_id, fs) # {}
    THEN [kind |-> "file",
          name |-> fs[least(list_hits(loca_id, fs))].name,
          content |-> fs[least(list_hits(loca_id, fs))].content]
    ELSE None

strip_cell(v) == IF v.k = "str" THEN Str(strip(v.s)) ELSE v

\* geol_df["LOCA_ID"] = geol_df["LOCA_ID"].str.strip()
strip_ids(df) ==
    IF has_column(df, "LOCA_ID")
    THEN set_column(df, "LOCA_ID",
            [r \in 1..Len(df.rows) |-> strip_cell(cell(df, r, "LOCA_ID"))])
    ELSE df

\* section_plot.parse_ags_geol_section: the table of one group (the same scan as
\* data_loader.parse_group), or the ValueError of the DataFrame constructor
section_table(rows, group_name) ==
    IF Raised(parse_group(rows, group_name)) THEN parse_group(rows, group_name)
    ELSE strip_ids(parse_group(rows, group_name))

\* df[df["LOCA_ID"] == loca_id]
rows_of(df, loca_id) ==
    DataFrame(df.columns,
        SelectSeq(df.rows, LAMBDA row : row[col_index(df, "LOCA_ID")] = Str(loca_id)))

Warning(msg) == [kind |-> "warning", msg |-> msg]

\* "Filter for this borehole" and the drawing of its log
log_of_tables(loca_id, name, geol_df, loca_df) ==
    IF Raised(geol_df) THEN geol_df
    ELSE IF Raised(loca_df) THEN loca_df
    ELSE IF ~has_column(geol_df, "LOCA_ID") \/ ~has_column(loca_df, "LOCA_ID")
    THEN Raise("KeyError")
    ELSE IF empty(rows_of(geol_df, loca_id)) \/ empty(rows_of(loca_df, loca_id))
    THEN Warning("No data found for borehole")
    ELSE [kind |-> "log", file |-> name,
          geol_bh |-> rows_of(geol_df, loca_id), loca_bh |-> rows_of(loca_df, loca_id)]

log_of_file(loca_id, ags_file) ==
    IF IsNone(ags_file) THEN Warning("Borehole not found in any AGS file")
    ELSE log_of_tables(loca_id, ags_file.name,
                       section_table(ags_file.content, "GEOL"),
                       section_table(ags_file.content, "LOCA"))

\* render_borehole_log(loca_id, filename_map, ags_files): the log drawn, the
\* warning shown, or the exception raised
render_borehole_log(loca_id, filename_map, fs) ==
    log_of_file(loca_id, find_ags_file(loca_id, filename_map, fs))

-----------------------------------------------------------------------------
(* The parser workbench: a text is written row by row, then parsed *)

Target == "LOCA"

GroupRows == {<<"GROUP", "LOCA">>, <<"GROUP", "GEOL">>, <<"GROUP">>}

HeadingRows ==
    {<<"HEADING", "LOCA_ID", "LOCA_GL">>, <<"HEADING", "HOLE_ID", "HOLE_GL">>,
     <<"HEADING", "LOCA_ID", "LOCA_ID">>}

DataRows ==
    {<<"DATA", " BH1 ", "12">>, <<"DATA", "BH2">>, <<"DATA">>,
     <<"DATA", "BH3", "7", "x">>}

OtherRows == {<<"TYPE", "ID", "2DP">>, <<>>}

RowAlphabet == GroupRows \cup HeadingRows \cup DataRows \cup OtherRows

NotParsed == [fn |-> "none", out |-> None]

ParserInit == content = <<>> /\ parsed = NotParsed

\* the next line of the text
AppendRow(row) ==
    /\ parsed = NotParsed
    /\ Len(content) < MaxRows
    /\ content' = Append(content, row)
    /\ UNCHANGED parsed

\* core: parse_ags_group(content, "LOCA")
ParseAgsGroup ==
    /\ parsed = NotParsed
    /\ parsed' = [fn |-> "parse_ags_group", out |-> parse_ags_group(content, Target)]
    /\ UNCHANGED content

\* data_loader: parse_group(content, "LOCA")
ParseGroup ==
    /\ parsed = NotParsed
    /\ parsed' = [fn |-> "parse_group", out |-> parse_group(content, Target)]
    /\ UNCHANGED content

\* old data_loader: parse_group(content, "LOCA")
OldParseGroup ==
    /\ parsed = NotParsed
    /\ parsed' = [fn |-> "old_parse_group", out |-> old_parse_group(content, Target)]
    /\ UNCHANGED content

NotRendered == [row |-> 0, out |-> None]

PipelineIdle ==
    /\ files = <<>>
    /\ results = <<>>
    /\ finished = <<>>
    /\ combined = <<>>
    /\ outcome = None
    /\ returned = None
    /\ loaded = None
    /\ pc = "upload"
    /\ log = NotRendered

NotSelected == [fn |-> "none", out |-> None]

NoEntry == [kind |-> "no entry"]

\* src/app.py: show_log_plot = False, last_plotted_selection_hash = None; no
\* plot drawn and no run counted yet
NotPlotted ==
    [show_log_plot |-> FALSE, last_plotted_selection_hash |-> None,
     last_plot_options |-> None, last_plot_data |-> None,
     runs |-> 0, plot_now |-> FALSE, rendered |-> None]

\* src/app.py: st.session_state["selected_boreholes"] = pd.DataFrame(); no shape
\* drawn yet; the caches of a fresh session are empty
SelectIdle ==
    /\ selection = NotSelected
    /\ geometry_cache = NoEntry
    /\ filter_cache = <<>>
    /\ session = [selected_boreholes |-> EmptyFrame, last_drawn_shape |-> None,
                  last_shape_hash |-> None]
    /\ calls = 0
    /\ plot = NotPlotted

NotDerived == [selected |-> EmptyFrame, fn |-> "none", out |-> None]

SectionIdle == section = NotDerived

NoZone == [fn |-> "none", median_lat |-> 0, median_lon |-> 0, utm_zone |-> 0, utm_crs |-> 0]

ZoneIdle == utm = NoZone

InitParse == ParserInit /\ PipelineIdle /\ SelectIdle /\ SectionIdle /\ ZoneIdle

NextParse ==
    \/ \E row \in RowAlphabet : AppendRow(row) /\ UNCHANGED parserRest
    \/ ParseAgsGroup /\ UNCHANGED parserRest
    \/ ParseGroup /\ UNCHANGED parserRest
    \/ OldParseGroup /\ UNCHANGED parserRest

SpecParse == InitParse /\ [][NextParse]_vars

-----------------------------------------------------------------------------
(* The upload: AGS files as the file uploader hands them over *)

FirstName == "A.ags"

OtherNames == {"B.ags", "site_investigation_2023.ags"}

LocaFull ==
    <<"LOCA_ID", "LOCA_NATE", "LOCA_NATN", "LOCA_GL", "LOCA_FDEP", "LOCA_LAT",
      "LOCA_LON">>

LocaEN == <<"LOCA_ID", "LOCA_NATE", "LOCA_NATN", "LOCA_GL", "LOCA_FDEP">>

\* a borehole: its id and its Easting / Northing cells
Hole(id, e, n) == [id |-> id, e |-> e, n |-> n]

BH1 == Hole("BH1", "451000", "207000")
BH2 == Hole("BH2", " 451050", "207010 ")
BH1B == Hole("BH1_B", "451100", "207020")
BH1Far == Hole("BH1", "800000", "207000")
BH3NoEast == Hole("BH3", "", "207000")

\* the layouts of a file: the heading of its LOCA group ("none": no LOCA group),
\* its boreholes, and whether it has a GEOL and an ABBR group
Layout(head, holes, geol, abbr) ==
    [head |-> head, holes |-> holes, geol |-> geol, abbr |-> abbr]

Layouts ==
    {Layout("full", <<BH1>>, TRUE, TRUE),
     Layout("full", <<BH1, BH2>>, TRUE, FALSE),
     Layout("full", <<BH1, BH1>>, TRUE, FALSE),
     Layout("full", <<BH1B>>, TRUE, FALSE),
     Layout("full", <<BH1Far, BH2>>, TRUE, FALSE),
     Layout("full", <<BH1>>, FALSE, FALSE),
     Layout("full", <<BH1, BH3NoEast>>, TRUE, FALSE),
     Layout("full", <<BH3NoEast>>, TRUE, FALSE),
     Layout("en", <<BH1, BH2>>, TRUE, FALSE),
     Layout("en", <<BH1>>, TRUE, FALSE),
     Layout("none", <<>>, TRUE, FALSE),
     Layout("none", <<>>, FALSE, TRUE),
     Layout("none", <<>>, FALSE, FALSE)}

LocaDataRow(head, h) ==
    IF head = "full"
    THEN <<"DATA", h.id, h.e, h.n, "100", "20", "51", "-1">>
    ELSE <<"DATA", h.id, h.e, h.n, "100", "20">>

LocaBlock(head, holes) ==
    IF head = "none" THEN <<>>
    ELSE <<<<"GROUP", "LOCA">>,
           <<"HEADING">> \o (IF head = "full" THEN LocaFull ELSE LocaEN),
           <<"TYPE", "ID", "2DP", "2DP", "2DP", "2DP">>
               \o (IF head = "full" THEN <<"2DP", "2DP">> ELSE <<>>)>>
         \o [i \in 1..Len(holes) |-> LocaDataRow(head, holes[i])]

GeolBlock(holes) ==
    <<<<"GROUP", "GEOL">>,
      <<"HEADING", "LOCA_ID", "GEOL_TOP", "GEOL_BASE", "GEOL_LEG">>,
      <<"TYPE", "ID", "2DP", "2DP", "PA">>>>
    \o (IF Len(holes) = 0 THEN <<<<"DATA", "BH1", "0", "5", "CLAY">>>>
        ELSE [i \in 1..Len(holes) |-> <<"DATA", holes[i].id, "0", "5", "CLAY">>])

AbbrBlock ==
    <<<<"GROUP", "ABBR">>, <<"HEADING", "ABBR_CODE", "ABBR_DESC">>,
      <<"DATA", "CLAY", "Clay">>>>

ProjBlock == <<<<"GROUP", "PROJ">>, <<"HEADING", "PROJ_ID">>, <<"DATA", "P1">>>>

ContentOf(l) ==
    ProjBlock
    \o LocaBlock(l.head, l.holes)
    \o (IF l.geol THEN GeolBlock(l.holes) ELSE <<>>)
    \o (IF l.abbr THEN AbbrBlock ELSE <<>>)

UploadedFile(name, l) == [name |-> name, content |-> ContentOf(l)]

\* the layouts uploaded under more than one file name: those whose borehole
\* BH1 collides with the BH1 of another file
CollidingLayouts ==
    {Layout("full", <<BH1>>, TRUE, TRUE), Layout("en", <<BH1>>, TRUE, FALSE),
     Layout("full", <<BH1, BH1>>, TRUE, FALSE)}

Catalogue ==
    {UploadedFile(FirstName, l) : l \in Layouts}
    \cup {UploadedFile(name, l) : name \in OtherNames, l \in CollidingLayouts}

\* @st.cache_data on parse_ags_file: a content is parsed once and the result is
\* served from the cache afterwards
parse_cache == [c \in {f.content : f \in Catalogue} |-> parse_ags_file(c)] @@ <<>>

cached_parse_ags_file(c) == parse_cache[c]

-----------------------------------------------------------------------------
(* The pipeline: upload, then the core entry point or the loader *)

Pending == [kind |-> "pending"]

names_of(fs) == [i \in 1..Len(fs) |-> fs[i].name]

PipelineInit == PipelineIdle /\ ParserInit /\ SelectIdle /\ SectionIdle /\ ZoneIdle

\* the user adds a file to the upload
AddFile(file) ==
    /\ pc = "upload"
    /\ Len(files) < MaxFiles
    /\ files' = Append(files, file)
    /\ UNCHANGED <<results, finished, combined, outcome, returned, loaded, pc, log>>

\* parse_ags_files(files) is called: an empty upload returns None at once,
\* otherwise every file is handed to the worker pool
Submit ==
    /\ pc = "upload"
    /\ IF Len(files) = 0
       THEN pc' = "returned" /\ returned' = None /\ UNCHANGED results
       ELSE /\ pc' = "parsing"
            /\ results' = [i \in 1..Len(files) |-> Pending]
            /\ UNCHANGED returned
    /\ UNCHANGED <<files, finished, combined, outcome, loaded, log>>

\* a worker finishes parse_ags_file for the file at position i
ParseFile(i) ==
    /\ pc = "parsing"
    /\ results[i] = Pending
    /\ results' = [results EXCEPT ![i] = cached_parse_ags_file(files[i].content)]
    /\ finished' = Append(finished, i)
    /\ UNCHANGED <<files, combined, outcome, returned, loaded, pc, log>>

\* the results in the order the workers finished
as_completed(res, done) == [k \in 1..Len(done) |-> res[done[k]]]

\* list(executor.map(...)): the results in the order of the files handed in,
\* whatever the order done in which the workers finished
executor_map(res, done) == res

\* [parse_ags_file(f.getvalue().decode(), f.name) for f in files]
sequential(fs) == [i \in 1..Len(fs) |-> cached_parse_ags_file(fs[i].content)]

\* executor.map has every result: the first exception in upload order is
\* re-raised, otherwise the results are merged; parse_ags_files turns an
\* exception into None
Merge ==
    /\ pc = "parsing"
    /\ \A i \in 1..Len(results) : results[i] # Pending
    /\ IF \E i \in 1..Len(results) : Raised(results[i])
       THEN /\ outcome' = results[CHOOSE i \in 1..Len(results) :
                                     /\ Raised(results[i])
                                     /\ \A j \in 1..(i - 1) : ~Raised(results[j])]
            /\ UNCHANGED combined
       ELSE /\ combined' =
                 merge_results(MergeStart, executor_map(results, finished),
                               names_of(files), 1).combined
            /\ outcome' = merge_outcome(combined')
    /\ returned' = IF Raised(outcome') THEN None ELSE outcome'
    /\ pc' = "returned"
    /\ UNCHANGED <<files, results, finished, loaded, log>>

\* src/app.py: load_all_loca_data(st.session_state["ags_files"])
LoadAllLocaData ==
    /\ pc = "upload"
    /\ Len(files) > 0
    /\ loaded' = load_all_loca_data(files)
    /\ pc' = "loaded"
    /\ UNCHANGED <<files, results, finished, combined, outcome, returned, log>>

\* the rows of the location table the user can select
log_rows ==
    IF pc = "loaded" /\ ~Raised(loaded) THEN 1..Len(loaded.loca_df.rows) ELSE {}

\* src/app.py: the selection holds the single borehole of row r of the location
\* table and its log is rendered
RenderBoreholeLog(r) ==
    /\ pc = "loaded"
    /\ ~Raised(loaded)
    /\ log = NotRendered
    /\ cell(loaded.loca_df, r, "LOCA_ID").k = "str"
    /\ log' = [row |-> r,
               out |-> render_borehole_log(cell(loaded.loca_df, r, "LOCA_ID").s,
                                           loaded.filename_map, files)]
    /\ UNCHANGED <<files, results, finished, combined, outcome, returned, loaded, pc>>

Init == PipelineInit

Next ==
    \/ \E file \in Catalogue : AddFile(file) /\ UNCHANGED pipelineRest
    \/ Submit /\ UNCHANGED pipelineRest
    \/ \E i \in 1..Len(files) : ParseFile(i) /\ UNCHANGED pipelineRest
    \/ Merge /\ UNCHANGED pipelineRest
    \/ LoadAllLocaData /\ UNCHANGED pipelineRest
    \/ \E r \in log_rows : RenderBoreholeLog(r) /\ UNCHANGED pipelineRest

Spec == Init /\ [][Next]_vars

-----------------------------------------------------------------------------
(* Shapes and geometry: the shapely objects the selection filters build *)

\* "k in d" for a dict d
has_key(d, k) == k \in DOMAIN d

\* a vertex of a drawn shape is <<lon, lat>>
lons(coords) == [i \in 1..Len(coords) |-> coords[i][1]]

lats(coords) == [i \in 1..Len(coords) |-> coords[i][2]]

\* min(...) and max(...) of a non-empty list
min_of(s) == CHOOSE x \in Range(s) : \A y \in Range(s) : x <= y

max_of(s) == CHOOSE x \in Range(s) : \A y \in Range(s) : x >= y

\* Polygon(coords): one or two vertices cannot make a ring
Polygon(coords) ==
    IF Len(coords) \in {1, 2} THEN Raise("ValueError")
    ELSE [kind |-> "Polygon", coords |-> coords]

\* LineString(coords): a single vertex cannot make a line
LineString(coords) ==
    IF Len(coords) = 1 THEN Raise("ValueError")
    ELSE [kind |-> "LineString", coords |-> coords]

\* the ring of a polygon, closed when the last vertex is not the first
ring(coords) ==
    IF Len(coords) > 0 /\ coords[1] # coords[Len(coords)]
    THEN Append(coords, coords[1])
    ELSE coords

cross(a, b, p) == (b[1] - a[1]) * (p[2] - a[2]) - (b[2] - a[2]) * (p[1] - a[1])

dot(a, b, p) == (p[1] - a[1]) * (b[1] - a[1]) + (p[2] - a[2]) * (b[2] - a[2])

norm2(a, b) == dot(a, b, b)

\* p lies in the interior of the convex ring
strictly_inside(coords, p) ==
    /\ Len(coords) >= 4
    /\ \/ \A i \in 1..(Len(coords) - 1) : cross(coords[i], coords[i + 1], p) > 0
       \/ \A i \in 1..(Len(coords) - 1) : cross(coords[i], coords[i + 1], p) < 0

on_segment(a, b, p) ==
    cross(a, b, p) = 0 /\ 0 <= dot(a, b, p) /\ dot(a, b, p) <= norm2(a, b)

\* p lies on the line, its two end points (the boundary of the line) excepted
on_line(coords, p) ==
    /\ \E i \in 1..(Len(coords) - 1) : on_segment(coords[i], coords[i + 1], p)
    /\ p # coords[1]
    /\ p # coords[Len(coords)]

\* geometry.contains(Point(p)): the interior only
contains(g, p) ==
    IF g.kind = "Polygon" THEN strictly_inside(ring(g.coords), p)
    ELSE on_line(g.coords, p)

\* the distance of p to the segment a-b is below the square root of r2
near_segment(a, b, p, r2) ==
    IF norm2(a, b) = 0 \/ dot(a, b, p) <= 0 THEN norm2(a, p) < r2
    ELSE IF dot(a, b, p) >= norm2(a, b) THEN norm2(b, p) < r2
    ELSE cross(a, b, p) * cross(a, b, p) < r2 * norm2(a, b)

near(coords, p, r2) ==
    \E i \in 1..(Len(coords) - 1) : near_segment(coords[i], coords[i + 1], p, r2)

\* geometry.buffer(r).contains(Point(p)) with r2 = r * r: the points closer than
\* r to the geometry (the boundary of the buffer is not contained)
buffer_contains(g, p, r2) ==
    IF g.kind = "Polygon"
    THEN strictly_inside(ring(g.coords), p) \/ near(ring(g.coords), p, r2)
    ELSE near(g.coords, p, r2)

\* the metres one unit of lat / lon stands for under the projection below
MetresPerUnit == 25

\* pyproj.Transformer.from_crs("epsg:4326", utm_crs, always_xy=True).transform:
\* an external function; a fixed stand-in that scales both axes alike
project(pt) == <<pt[1] * MetresPerUnit, pt[2] * MetresPerUnit>>

\* shapely_transform(project, geometry)
shapely_transform(g) ==
    [g EXCEPT !.coords = [i \in 1..Len(g.coords) |-> project(g.coords[i])]]

buffer_m == 50

\* the candidate row r has a position (neither lat nor lon is null)
has_point(df, r) == ~isna(cell(df, r, "lat")) /\ ~isna(cell(df, r, "lon"))

\* Point(row["lon"], row["lat"])
point_of(df, r) == <<cell(df, r, "lon").n, cell(df, r, "lat").n>>

has_latlon(df) == has_column(df, "lat") /\ has_column(df, "lon")

-----------------------------------------------------------------------------
(* Selection by a drawn shape, as the application calls it: src/map_utils.py *)

bounding_box(coords) ==
    [min_lat |-> min_of(lats(coords)), max_lat |-> max_of(lats(coords)),
     min_lon |-> min_of(lons(coords)), max_lon |-> max_of(lons(coords))]

\* the open box: its edges left out
in_bounds_strict(lat, lon, box) ==
    /\ lat > box.min_lat /\ lat < box.max_lat
    /\ lon > box.min_lon /\ lon < box.max_lon

\* (lat >= min_lat) & (lat <= max_lat) & (lon >= min_lon) & (lon <= max_lon)
in_bounds(lat, lon, box) ==
    /\ lat >= box.min_lat /\ lat <= box.max_lat
    /\ lon >= box.min_lon /\ lon <= box.max_lon

\* a comparison with a null position is False
in_box(df, r, box) ==
    has_point(df, r) /\ in_bounds(cell(df, r, "lat").n, cell(df, r, "lon").n, box)

rectangle_rows(df, coords) ==
    filter_rows(df, [r \in 1..Len(df.rows) |-> in_box(df, r, bounding_box(coords))])

\* loca_df[loca_df.apply(lambda row: geometry.contains(Point(...)), axis=1)]
contains_rows(df, g) ==
    filter_rows(df, [r \in 1..Len(df.rows) |->
                        has_point(df, r) /\ contains(g, point_of(df, r))])

\* the rows whose projected point lies in the projected geometry's buffer
buffer_rows(df, g) ==
    filter_rows(df, [r \in 1..Len(df.rows) |->
        /\ has_point(df, r)
        /\ buffer_contains(shapely_transform(g), project(point_of(df, r)),
                           buffer_m * buffer_m)])

\* df[c].median() is NaN: the column holds no value
all_null(df, c) == \A r \in 1..Len(df.rows) : isna(cell(df, r, c))

\* the "Rectangle" branch
filter_rectangle(geom, loca_df) ==
    IF ~has_key(geom, "coordinates") THEN Raise("KeyError")
    ELSE IF Len(geom.coordinates) = 0 THEN Raise("IndexError")
    ELSE IF Len(geom.coordinates[1]) = 0 THEN Raise("ValueError")
    ELSE IF ~has_latlon(loca_df) THEN Raise("KeyError")
    ELSE rectangle_rows(loca_df, geom.coordinates[1])

\* the "Polygon" branch
filter_polygon(geom, loca_df) ==
    IF ~has_key(geom, "coordinates") THEN Raise("KeyError")
    ELSE IF Len(geom.coordinates) = 0 THEN Raise("IndexError")
    ELSE IF Raised(Polygon(geom.coordinates[1])) THEN Polygon(geom.coordinates[1])
    ELSE IF Len(loca_df.rows) > 0 /\ ~has_latlon(loca_df) THEN Raise("KeyError")
    ELSE IF Len(loca_df.rows) = 0 THEN loca_df
    ELSE contains_rows(loca_df, Polygon(geom.coordinates[1]))

\* the "LineString" branch: the UTM zone is int((median_lon + 180) / 6) + 1
filter_line(geom, loca_df) ==
    IF ~has_key(geom, "coordinates") THEN Raise("KeyError")
    ELSE IF Raised(LineString(geom.coordinates)) THEN LineString(geom.coordinates)
    ELSE IF ~has_latlon(loca_df) THEN Raise("KeyError")
    ELSE IF all_null(loca_df, "lon") THEN Raise("ValueError")
    ELSE buffer_rows(loca_df, LineString(geom.coordinates))

filter_selection_by_shape(geom, loca_df) ==
    IF geom = None THEN EmptyFrame
    ELSE IF ~has_key(geom, "type") THEN Raise("KeyError")
    ELSE IF geom.type = "Rectangle" THEN filter_rectangle(geom, loca_df)
    ELSE IF geom.type = "Polygon" THEN filter_polygon(geom, loca_df)
    ELSE IF geom.type = "LineString" THEN filter_line(geom, loca_df)
    ELSE EmptyFrame

-----------------------------------------------------------------------------
(* Selection by a drawn shape with cached helpers:
   src/visualization/mapping/map_utils.py *)

\* the body of create_geometry: every exception is caught and gives None; a type
\* that matches no branch falls through to None
create_geometry_body(geom) ==
    IF ~has_key(geom, "type") THEN None
    ELSE IF geom.type \in {"Rectangle", "Polygon"}
    THEN IF ~has_key(geom, "coordinates") THEN None
         ELSE IF Len(geom.coordinates) = 0 THEN None
         ELSE IF Raised(Polygon(geom.coordinates[1])) THEN None
         ELSE Polygon(geom.coordinates[1])
    ELSE IF geom.type = "LineString"
    THEN IF ~has_key(geom, "coordinates") THEN None
         ELSE IF Raised(LineString(geom.coordinates)) THEN None
         ELSE LineString(geom.coordinates)
    ELSE None

\* @st.cache_data on create_geometry(_geom): a parameter whose name starts with
\* an underscore is left out of the cache key, so the function has one entry;
\* cache is that entry (NoEntry before the first call)
create_geometry(cache, geom) ==
    IF cache.kind = "no entry" THEN create_geometry_body(geom) ELSE cache.value

create_geometry_entry(cache, geom) ==
    IF cache.kind = "no entry"
    THEN [kind |-> "entry", value |-> create_geometry_body(geom)]
    ELSE cache

_filter_by_rectangle(geom, loca_df) == filter_rectangle(geom, loca_df)

_filter_by_polygon(cache, geom, loca_df) ==
    IF IsNone(create_geometry(cache, geom)) THEN EmptyFrame
    ELSE IF ~has_latlon(loca_df) THEN Raise("KeyError")
    ELSE contains_rows(loca_df, create_geometry(cache, geom))

\* get_utm_transformer: utm_zone = int((median_lon + 180) / 6) + 1
_filter_by_line(cache, geom, loca_df) ==
    IF IsNone(create_geometry(cache, geom)) THEN EmptyFrame
    ELSE IF ~has_latlon(loca_df) THEN Raise("KeyError")
    ELSE IF all_null(loca_df, "lon") THEN Raise("ValueError")
    ELSE buffer_rows(loca_df, create_geometry(cache, geom))

\* the helper the type of the shape dispatches to ("" when none does)
helper_of(geom) ==
    IF geom.type = "Rectangle" THEN "_filter_by_rectangle"
    ELSE IF geom.type = "Polygon" THEN "_filter_by_polygon"
    ELSE IF geom.type = "LineString" THEN "_filter_by_line"
    ELSE ""

\* the call reaches one of the three helpers
dispatches(geom, loca_df) ==
    /\ geom # None
    /\ ~empty(loca_df)
    /\ has_key(geom, "type")
    /\ helper_of(geom) # ""

\* @st.cache_data on the three helpers: entries keyed by (helper, geom, loca_df)
cache_hit(fcache, geom, loca_df) ==
    \E i \in 1..Len(fcache) :
        /\ fcache[i].fn = helper_of(geom)
        /\ fcache[i].geom = geom
        /\ fcache[i].table = loca_df

cached_value(fcache, geom, loca_df) ==
    fcache[CHOOSE i \in 1..Len(fcache) :
              /\ fcache[i].fn = helper_of(geom)
              /\ fcache[i].geom = geom
              /\ fcache[i].table = loca_df].out

\* the body of the helper, run on a cache miss
helper_body(gcache, geom, loca_df) ==
    IF geom.type = "Rectangle" THEN _filter_by_rectangle(geom, loca_df)
    ELSE IF geom.type = "Polygon" THEN _filter_by_polygon(gcache, geom, loca_df)
    ELSE _filter_by_line(gcache, geom, loca_df)

helper_call(gcache, fcache, geom, loca_df) ==
    IF cache_hit(fcache, geom, loca_df) THEN cached_value(fcache, geom, loca_df)
    ELSE helper_body(gcache, geom, loca_df)

\* try: ... except Exception: return pd.DataFrame(), None
caught(x) == IF Raised(x) THEN EmptyFrame ELSE x

\* the table of the returned pair (the second component, the orientation line of
\* the selected rows, is calculate_pca_line below)
mapping_filter_selection_by_shape(gcache, fcache, geom, loca_df) ==
    IF dispatches(geom, loca_df)
    THEN caught(helper_call(gcache, fcache, geom, loca_df))
    ELSE EmptyFrame

\* the entry of create_geometry after the call: filled by the first helper body
\* that runs for a Polygon or a LineString
geometry_cache_after(gcache, fcache, geom, loca_df) ==
    IF /\ dispatches(geom, loca_df)
       /\ geom.type \in {"Polygon", "LineString"}
       /\ ~cache_hit(fcache, geom, loca_df)
    THEN create_geometry_entry(gcache, geom)
    ELSE gcache

\* the entries of the helpers after the call: a body that returns is stored, one
\* that raises is not
filter_cache_after(gcache, fcache, geom, loca_df) ==
    IF /\ dispatches(geom, loca_df)
       /\ ~cache_hit(fcache, geom, loca_df)
       /\ ~Raised(helper_body(gcache, geom, loca_df))
    THEN Append(fcache, [fn |-> helper_of(geom), geom |-> geom, table |-> loca_df,
                         out |-> helper_body(gcache, geom, loca_df)])
    ELSE fcache

-----------------------------------------------------------------------------
(* The click-to-select bridge: src/app.py, setup_bh_circle_event_bridge *)

\* the tiny circle drawn at the clicked position; its radius, 0.5 m, is kept as
\* text since no code reads it
Circle(lat, lon) ==
    [type |-> "Circle", coordinates |-> <<lon, lat>>, radius |-> "0.5"]

\* (selected["lat"] - lat) ** 2 + (selected["lon"] - lon) ** 2, whose square
\* root orders the rows alike
dists(df, r, lat, lon) ==
    (cell(df, r, "lat").n - lat) * (cell(df, r, "lat").n - lat)
        + (cell(df, r, "lon").n - lon) * (cell(df, r, "lon").n - lon)

\* dists.idxmin(): the first row at the smallest distance, nulls skipped
closest_idx(df, lat, lon) ==
    CHOOSE r \in 1..Len(df.rows) :
        /\ has_point(df, r)
        /\ \A q \in 1..Len(df.rows) :
              has_point(df, q) =>
                  \/ dists(df, r, lat, lon) < dists(df, q, lat, lon)
                  \/ dists(df, r, lat, lon) = dists(df, q, lat, lon) /\ r <= q

\* if len(selected) > 1: selected = selected.loc[[closest_idx]]
closest(selected, lat, lon) ==
    IF Raised(selected) THEN selected
    ELSE IF ~empty(selected) /\ Len(selected.rows) > 1
    THEN DataFrame(selected.columns, <<selected.rows[closest_idx(selected, lat, lon)]>>)
    ELSE selected

\* f"circle_{lat}_{lon}" and str(geom)
circle_hash(lat, lon) == [kind |-> "circle", lat |-> lat, lon |-> lon]

str_hash(geom) == [kind |-> "str", of |-> geom]

\* the session after the bridge ran: an exception of the filter is swallowed
\* after the circle and its hash were stored
bridge_session(old, lat, lon, selected) ==
    [selected_boreholes |->
        IF Raised(selected) THEN old.selected_boreholes ELSE selected,
     last_drawn_shape |-> Circle(lat, lon),
     last_shape_hash |-> circle_hash(lat, lon)]

\* the session after a drawn shape was handled: an exception of the filter
\* leaves the script before anything is stored
drawn_session(old, geom, selected) ==
    IF Raised(selected) THEN old
    ELSE [selected_boreholes |-> selected, last_drawn_shape |-> geom,
          last_shape_hash |-> str_hash(geom)]

-----------------------------------------------------------------------------
(* The shapes a user draws and the candidate tables *)

Candidate(id, lat, lon) == <<Str(id), Num(lat), Num(lon)>>

LocaTable(rows) == DataFrame(<<"LOCA_ID", "lat", "lon">>, rows)

\* one unit of lat / lon is MetresPerUnit metres on the ground
OnLine == Candidate("BH_A", 0, 4)
Near25 == Candidate("BH_B", 1, 4)
At50 == Candidate("BH_C", 2, 4)
At100 == Candidate("BH_D", 4, 4)
South == Candidate("BH_E", -1, 5)
West == Candidate("BH_F", 1, 3)
East == Candidate("BH_G", 1, 9)
NoPosition == <<Str("BH_H"), NaN, NaN>>

MainTable == LocaTable(<<OnLine, Near25, At50, At100, South, West, East, NoPosition>>)
PairTable == LocaTable(<<OnLine, At100>>)
UnlocatedTable == LocaTable(<<NoPosition>>)
NoRowsTable == LocaTable(<<>>)

Tables == <<MainTable, PairTable, UnlocatedTable, NoRowsTable, EmptyFrame>>

\* vertices are <<lon, lat>>
BoxRing == <<<<4, 0>>, <<8, 0>>, <<8, 2>>, <<4, 2>>, <<4, 0>>>>
WideRing == <<<<3, -2>>, <<10, -2>>, <<3, 5>>, <<3, -2>>>>
SmallRing == <<<<3, 3>>, <<5, 3>>, <<5, 5>>, <<3, 5>>, <<3, 3>>>>
EastWest == <<<<0, 0>>, <<8, 0>>>>
NorthSouth == <<<<4, 3>>, <<4, 5>>>>

Shapes ==
    << None,
       [type |-> "MultiPoint", coordinates |-> EastWest],
       [coordinates |-> <<BoxRing>>],
       [type |-> "Rectangle"],
       [type |-> "Rectangle", coordinates |-> <<BoxRing>>],
       [type |-> "Polygon", coordinates |-> <<WideRing>>],
       [type |-> "Polygon", coordinates |-> <<SmallRing>>],
       [type |-> "Polygon", coordinates |-> <<EastWest>>],
       [type |-> "LineString"],
       [type |-> "LineString", coordinates |-> EastWest],
       [type |-> "LineString", coordinates |-> NorthSouth],
       [type |-> "LineString", coordinates |-> <<<<4, 0>>>>],
       Circle(0, 4) >>

-----------------------------------------------------------------------------
(* The selection events of a session *)

SelectInit == SelectIdle /\ ParserInit /\ PipelineIdle /\ SectionIdle /\ ZoneIdle

\* src/app.py: the map reports a drawn shape whose text differs from the last
\* handled one; the selection is filtered and stored
DrawShape(geom, loca_df) ==
    /\ calls < MaxCalls
    /\ session.last_shape_hash # str_hash(geom)
    /\ selection' = [fn |-> "map_utils", geom |-> geom, table |-> loca_df,
                     out |-> filter_selection_by_shape(geom, loca_df)]
    /\ session' = drawn_session(session, geom, selection'.out)
    /\ calls' = calls + 1
    /\ UNCHANGED <<geometry_cache, filter_cache, plot>>

\* src/app.py: a marker of the map reports a click at its own position
ClickBorehole(loca_df, r) ==
    /\ calls < MaxCalls
    /\ has_latlon(loca_df)
    /\ has_point(loca_df, r)
    /\ selection' = [fn |-> "bridge",
                     geom |-> Circle(cell(loca_df, r, "lat").n, cell(loca_df, r, "lon").n),
                     table |-> loca_df,
                     out |-> filter_selection_by_shape(
                                 Circle(cell(loca_df, r, "lat").n, cell(loca_df, r, "lon").n),
                                 loca_df)]
    /\ session' = bridge_session(session, cell(loca_df, r, "lat").n,
                                 cell(loca_df, r, "lon").n,
                                 closest(selection'.out, cell(loca_df, r, "lat").n,
                                         cell(loca_df, r, "lon").n))
    /\ calls' = calls + 1
    /\ UNCHANGED <<geometry_cache, filter_cache, plot>>

\* a call of the filter of src/visualization/mapping/map_utils.py
FilterByShape(geom, loca_df) ==
    /\ calls < MaxCalls
    /\ selection' = [fn |-> "mapping", geom |-> geom, table |-> loca_df,
                     out |-> mapping_filter_selection_by_shape(
                                 geometry_cache, filter_cache, geom, loca_df)]
    /\ geometry_cache' = geometry_cache_after(geometry_cache, filter_cache, geom, loca_df)
    /\ filter_cache' = filter_cache_after(geometry_cache, filter_cache, geom, loca_df)
    /\ calls' = calls + 1
    /\ UNCHANGED <<session, plot>>

selectRest == <<parserVars, pipelineVars, sectionVars, zoneVars>>

NextSelect ==
    \/ (\E i \in 1..Len(Shapes), t \in 1..Len(Tables) :
            DrawShape(Shapes[i], Tables[t]) /\ UNCHANGED selectRest)
    \/ (\E t \in 1..Len(Tables) : \E r \in 1..Len(Tables[t].rows) :
            ClickBorehole(Tables[t], r) /\ UNCHANGED selectRest)
    \/ (\E i \in 1..Len(Shapes), t \in 1..Len(Tables) :
            FilterByShape(Shapes[i], Tables[t]) /\ UNCHANGED selectRest)

SpecSelect == SelectInit /\ [][NextSelect]_vars

-----------------------------------------------------------------------------
(* Plotting a selection: the script of src/app.py from the popup click to the
   drawing of the log or the section *)

\* get_selection_hash(selected): None for no selection, else the hash of the
\* tuple of ids, kept as the tuple
get_selection_hash(selected) ==
    IF empty(selected) THEN None
    ELSE [kind |-> "hash", of |-> column(selected, "LOCA_ID")]

\* render_checkbox_grid(selected) with every box left checked
render_checkbox_grid(selected) == column(selected, "LOCA_ID")

\* {}
EmptyDict == <<>>

\* f"loglink_{loca_id}"
loglink_hash(loca_id) == [kind |-> "loglink", id |-> loca_id]

\* loca_df[loca_df["LOCA_ID"] == loca_id]
popup_rows(loca_df, loca_id) ==
    IF ~has_column(loca_df, "LOCA_ID") THEN Raise("KeyError")
    ELSE rows_of(loca_df, loca_id)

\* the session after the popup handler: stored only "if not selected_row.empty"
popup_session(old, loca_id, selected_row) ==
    IF Raised(selected_row) \/ empty(selected_row) THEN old
    ELSE [selected_boreholes |-> selected_row, last_drawn_shape |-> EmptyDict,
          last_shape_hash |-> loglink_hash(loca_id)]

\* the value of the "Labels" checkbox as it is stored
Bool(b) == [kind |-> "bool", value |-> b]

\* "Plot if: (1) user pressed button for this selection, (2) plot options
\* changed for current selection"
plot_for_selection(p, current_selection_hash, show_labels) ==
    \/ p.show_log_plot /\ current_selection_hash = p.last_plotted_selection_hash
    \/ /\ current_selection_hash = p.last_plotted_selection_hash
       /\ p.last_plot_options # Bool(show_labels)

\* "Restore last plot if selection and options match"
restore_last_plot(p, current_selection_hash, show_labels) ==
    /\ ~IsNone(p.last_plot_data)
    /\ p.last_plot_data.selection_hash = current_selection_hash
    /\ p.last_plot_data.plot_options = Bool(show_labels)

\* the drawing of the plot: the log of one borehole; generate_section_plot is
\* called with a keyword show_labels it does not take
draw_plot(filtered_ids) ==
    IF Len(filtered_ids) = 1 THEN [kind |-> "borehole_log", loca_id |-> filtered_ids[1]]
    ELSE IF Len(filtered_ids) > 1 THEN Raise("TypeError")
    ELSE None

\* "if plot_now:" for the ids to plot; show_log_plot is reset after the drawing
plotted(p, filtered_ids, show_labels) ==
    [p EXCEPT !.last_plot_options = Bool(show_labels),
              !.plot_now = TRUE,
              !.rendered = draw_plot(filtered_ids),
              !.show_log_plot = IF Raised(draw_plot(filtered_ids)) THEN @ ELSE FALSE]

last_plot_data_of(current_selection_hash, show_labels, filtered_ids) ==
    [kind |-> "dict", selection_hash |-> current_selection_hash,
     plot_options |-> Bool(show_labels),
     plot_type |-> IF Len(filtered_ids) = 1 THEN "log" ELSE "section",
     filtered_ids |-> filtered_ids]

\* the plotting part of one run of the script over the selection selected
plotting(p, selected, show_labels) ==
    IF empty(selected) THEN [p EXCEPT !.plot_now = FALSE, !.rendered = None]
    ELSE IF plot_for_selection(p, get_selection_hash(selected), show_labels)
    THEN plotted([p EXCEPT !.last_plot_data =
                        last_plot_data_of(get_selection_hash(selected), show_labels,
                                          render_checkbox_grid(selected))],
                 render_checkbox_grid(selected), show_labels)
    ELSE IF restore_last_plot(p, get_selection_hash(selected), show_labels)
    THEN plotted(p, p.last_plot_data.filtered_ids, show_labels)
    ELSE [p EXCEPT !.plot_now = FALSE, !.rendered = None]

\* "button_disabled"
button_disabled(p, current_selection) ==
    \/ empty(current_selection)
    \/ get_selection_hash(current_selection) = p.last_plotted_selection_hash

\* the ids a popup can name: two boreholes of the tables and one of none
PopupIds == {"BH_A", "BH_D", "BH_Z"}

\* the popup of the marker of loca_id is clicked: the selection becomes the rows
\* with that id and the script is run again
ClickPopup(loca_df, loca_id) ==
    /\ calls < MaxCalls
    /\ session' = popup_session(session, loca_id, popup_rows(loca_df, loca_id))
    /\ plot' = IF Raised(popup_rows(loca_df, loca_id)) \/ empty(popup_rows(loca_df, loca_id))
               THEN plot
               ELSE [plot EXCEPT !.show_log_plot = TRUE, !.runs = 0]
    /\ calls' = calls + 1
    /\ UNCHANGED <<selection, geometry_cache, filter_cache>>

\* a run of the script without a new map event and without the button
Run(show_labels) ==
    /\ plot.runs < MaxRuns
    /\ plot' = [plotting(plot, session.selected_boreholes, show_labels)
                   EXCEPT !.runs = plot.runs + 1]
    /\ UNCHANGED <<selection, geometry_cache, filter_cache, session, calls>>

\* a run in which "Create Plot from Selection" was pressed
PressCreatePlot(show_labels) ==
    /\ plot.runs < MaxRuns
    /\ ~button_disabled(plot, session.selected_boreholes)
    /\ plot' = [plotting([plot EXCEPT
                              !.show_log_plot = TRUE,
                              !.last_plotted_selection_hash =
                                  get_selection_hash(session.selected_boreholes)],
                         session.selected_boreholes, show_labels)
                   EXCEPT !.runs = plot.runs + 1]
    /\ UNCHANGED <<selection, geometry_cache, filter_cache, session, calls>>

NextPlot ==
    \/ (\E i \in 1..Len(Shapes), t \in 1..Len(Tables) :
            DrawShape(Shapes[i], Tables[t]) /\ UNCHANGED selectRest)
    \/ (\E t \in 1..Len(Tables), id \in PopupIds :
            ClickPopup(Tables[t], id) /\ UNCHANGED selectRest)
    \/ (\E show_labels \in BOOLEAN : Run(show_labels) /\ UNCHANGED selectRest)
    \/ (\E show_labels \in BOOLEAN :
            PressCreatePlot(show_labels) /\ UNCHANGED selectRest)

SpecPlot == SelectInit /\ [][NextPlot]_vars

-----------------------------------------------------------------------------
(* Principal axis of a set of positions: sklearn.decomposition.PCA.
   A position is <<Easting, Northing>>. To stay in the integers, a centred
   coordinate is kept multiplied by the number n of positions, and a distance
   along the axis, measured from the mean, is kept in units of 1 / (10 * n). *)

RECURSIVE sum_to(_, _, _)
sum_to(pts, k, i) == IF i = 0 THEN 0 ELSE pts[i][k] + sum_to(pts, k, i - 1)

\* n * (pts[i][k] - mean of column k)
centred(pts, i, k) == Len(pts) * pts[i][k] - sum_to(pts, k, Len(pts))

\* n * n * the scatter of columns j and k
RECURSIVE scatter_to(_, _, _, _)
scatter_to(pts, j, k, i) ==
    IF i = 0 THEN 0
    ELSE centred(pts, i, j) * centred(pts, i, k) + scatter_to(pts, j, k, i - 1)

scatter(pts, j, k) == scatter_to(pts, j, k, Len(pts))

\* the first principal axis where it is one of the coordinate axes: "E", "N",
\* or "oblique" for every other set of positions (coincident positions have no
\* spread and any axis gives the same line; "E" stands for it)
principal_axis(pts) ==
    IF scatter(pts, 1, 1) = 0 /\ scatter(pts, 2, 2) = 0 THEN "E"
    ELSE IF scatter(pts, 1, 2) # 0 THEN "oblique"
    ELSE IF scatter(pts, 1, 1) > scatter(pts, 2, 2) THEN "E"
    ELSE IF scatter(pts, 2, 2) > scatter(pts, 1, 1) THEN "N"
    ELSE "oblique"

\* pca.components_[0]: the unit vector of the axis; which of its two senses the
\* decomposition returns is sign
components_0(pts, sign) ==
    IF principal_axis(pts) = "N" THEN <<0, sign>> ELSE <<sign, 0>>

\* n * pca_coords[i, 0]: the projection of position i on the axis
pca_coords_0(pts, i, direction) ==
    centred(pts, i, 1) * direction[1] + centred(pts, i, 2) * direction[2]

projected_0(pts, direction) ==
    [i \in 1..Len(pts) |-> pca_coords_0(pts, i, direction)]

\* n * (max - min) of the projections
ptp(pts, direction) ==
    max_of(projected_0(pts, direction)) - min_of(projected_0(pts, direction))

\* a line along the axis through the mean: start and end are distances from
\* the mean along direction, in units of 1 / (10 * n)
axis_line(pts, direction, start, end) ==
    [kind |-> "line", n |-> Len(pts),
     sum |-> <<sum_to(pts, 1, Len(pts)), sum_to(pts, 2, Len(pts))>>,
     direction |-> direction, start |-> start, end |-> end]

-----------------------------------------------------------------------------
(* Section line of a selection: src/section_logic.py,
   src/old_files/section_logic.py, src/visualization/mapping/map_utils.py *)

\* last_shape.get("type") == "LineString"
is_line_string(last_shape) ==
    has_key(last_shape, "type") /\ last_shape.type = "LineString"

\* last_shape.get("coordinates", [])
coordinates_of(last_shape) ==
    IF has_key(last_shape, "coordinates") THEN last_shape.coordinates ELSE <<>>

has_all_columns(df, cols) == \A c \in cols : has_column(df, c)

\* [transformer.transform(lon, lat) for lon, lat in coords]: the drawn line in
\* EPSG:27700, an external transformation kept symbolic
drawn_section_line(coords) == [kind |-> "drawn", coordinates |-> coords]

\* selected[["LOCA_NATE", "LOCA_NATN"]].isnull().any().any()
any_null(df) ==
    \E r \in 1..Len(df.rows) :
        isna(cell(df, r, "LOCA_NATE")) \/ isna(cell(df, r, "LOCA_NATN"))

\* selected[["LOCA_NATE", "LOCA_NATN"]] as positions
positions(df) ==
    [r \in 1..Len(df.rows) |-> <<cell(df, r, "LOCA_NATE").n, cell(df, r, "LOCA_NATN").n>>]

\* the guard of the PCA branch
complete_positions(df) ==
    /\ ~empty(df)
    /\ has_all_columns(df, {"LOCA_NATE", "LOCA_NATN"})
    /\ ~any_null(df)

\* src/section_logic.py lines 34-40: length / 2 is 5 tenths of length and
\* buffer 2 tenths
symmetric_line(pts, direction) ==
    axis_line(pts, direction,
              -(5 * ptp(pts, direction) + 2 * ptp(pts, direction)),
              5 * ptp(pts, direction) + 2 * ptp(pts, direction))

\* src/section_logic.py lines 32-40: PCA(n_components=2) rejects a single sample
pca_section_line(pts, sign) ==
    IF Len(pts) < 2 THEN Raise("ValueError")
    ELSE symmetric_line(pts, components_0(pts, sign))

\* generate_section_plot, lines 7-40: the section line handed to the plots
generate_section_plot(selected, last_shape, sign) ==
    IF ~has_all_columns(selected, {"LOCA_ID", "ags_file"}) THEN Raise("KeyError")
    ELSE IF is_line_string(last_shape)
    THEN IF /\ Len(coordinates_of(last_shape)) > 0
            /\ has_all_columns(selected, {"lat", "lon", "LOCA_NATE", "LOCA_NATN"})
         THEN drawn_section_line(coordinates_of(last_shape))
         ELSE None
    ELSE IF complete_positions(selected)
    THEN pca_section_line(positions(selected), sign)
    ELSE None

\* src/old_files/section_logic.py lines 46-54: total_length / 2 is
\* (10 + 2 * 2) / 2 = 7 tenths of length
old_symmetric_line(pts, direction) ==
    axis_line(pts, direction, -(7 * ptp(pts, direction)), 7 * ptp(pts, direction))

\* src/old_files/section_logic.py lines 38-57: every exception gives None
old_pca_section_line(pts, sign) ==
    IF Len(pts) < 2 THEN None
    ELSE old_symmetric_line(pts, components_0(pts, sign))

\* calculate_section_line of src/old_files/section_logic.py: an unusable drawn
\* line falls through to the PCA branch
calculate_section_line(selected_df, last_shape, sign) ==
    IF /\ is_line_string(last_shape)
       /\ Len(coordinates_of(last_shape)) > 0
       /\ has_all_columns(selected_df, {"lat", "lon", "LOCA_NATE", "LOCA_NATN"})
    THEN drawn_section_line(coordinates_of(last_shape))
    ELSE IF complete_positions(selected_df)
    THEN old_pca_section_line(positions(selected_df), sign)
    ELSE None

\* the array of positions has a null
null_point(df) == has_all_columns(df, {"LOCA_NATE", "LOCA_NATN"}) /\ any_null(df)

\* calculate_pca_line lines 72-84: extended_min and extended_max are
\* min - 0.2 * range and max + 0.2 * range of the projections
extended_line(pts, direction) ==
    axis_line(pts, direction,
              10 * min_of(projected_0(pts, direction)) - 2 * ptp(pts, direction),
              10 * max_of(projected_0(pts, direction)) + 2 * ptp(pts, direction))

\* calculate_pca_line(points) for the positions of df: a null makes the
\* decomposition raise, which is caught
calculate_pca_line(df, sign) ==
    IF Len(df.rows) < 2 THEN None
    ELSE IF ~has_all_columns(df, {"LOCA_NATE", "LOCA_NATN"}) \/ null_point(df) THEN None
    ELSE extended_line(positions(df), components_0(positions(df), sign))

-----------------------------------------------------------------------------
(* Along-section distances: src/section_plot.py, plot_borehole_sections *)

\* merged.dropna(subset=["LOCA_NATE", "LOCA_NATN"]): the boreholes with a
\* position, as records, one per LOCA_ID in LOCA_ID order
located(df, r) ==
    ~isna(cell(df, r, "LOCA_NATE")) /\ ~isna(cell(df, r, "LOCA_NATN"))

borehole_of(row) == [id |-> row[1].s, x |-> row[3].n, y |-> row[4].n]

grouped(df) ==
    [i \in 1..Len(select(df.rows, [r \in 1..Len(df.rows) |-> located(df, r)], 1)) |->
        borehole_of(select(df.rows, [r \in 1..Len(df.rows) |-> located(df, r)], 1)[i])]

\* insertion of b into a sequence sorted by x
RECURSIVE insert_sorted(_, _)
insert_sorted(s, b) ==
    IF Len(s) = 0 THEN <<b>>
    ELSE IF b.x < s[1].x THEN <<b>> \o s
    ELSE <<s[1]>> \o insert_sorted(Tail(s), b)

RECURSIVE sort_from(_, _)
sort_from(s, i) ==
    IF i = 0 THEN <<>> ELSE insert_sorted(sort_from(s, i - 1), s[i])

\* the sequence as it is
keep_order(s) == s

\* Series.sort_values(): ascending by Easting
sort_values(s) == sort_from(s, Len(s))

\* borehole_x: the boreholes in plotting order
borehole_x(df) == sort_values(grouped(df))

\* np.hypot(dx, dy) of a line along a coordinate axis
abs(v) == IF v < 0 THEN -v ELSE v

hypot(dx, dy) == abs(dx) + abs(dy)

\* rel_x of borehole b for a two-point section line
two_point_rel_x(b, first, line) ==
    IF hypot(line[2][1] - line[1][1], line[2][2] - line[1][2]) = 0
    THEN b.x - first.x
    ELSE ((b.x - line[1][1]) * (line[2][1] - line[1][1])
            + (b.y - line[1][2]) * (line[2][2] - line[1][2]))
         \div hypot(line[2][1] - line[1][1], line[2][2] - line[1][2])

rel_x(b, first, section_line) ==
    IF section_line = None THEN b.x - first.x
    ELSE two_point_rel_x(b, first, section_line.points)

\* bh_x_map: the along-section distance of every plotted borehole
bh_x_map(boreholes, section_line) ==
    [i \in 1..Len(boreholes) |->
        [id |-> boreholes[i].id, rel_x |-> rel_x(boreholes[i], boreholes[1], section_line)]]

\* plot_borehole_sections up to the distances: nothing is plotted when no
\* borehole has a position
plot_borehole_sections(loca_df, section_line) ==
    IF ~has_all_columns(loca_df, {"LOCA_ID", "LOCA_NATE", "LOCA_NATN"}) THEN Raise("KeyError")
    ELSE IF Len(grouped(loca_df)) = 0 THEN None
    ELSE [kind |-> "distances", of |-> bh_x_map(borehole_x(loca_df), section_line)]

\* plot_section_from_ags after the file was parsed and filtered: nothing is
\* plotted for an empty table (every borehole of the table has geology)
plot_section_from_ags(loca_df, section_line) ==
    IF empty(loca_df) THEN None
    ELSE plot_borehole_sections(loca_df, section_line)

-----------------------------------------------------------------------------
(* The section workbench: a selection is put together, then a section line is
   derived from it or its boreholes are laid out along a line *)

BoreholeIds == <<"BH1", "BH2", "BH3", "BH4", "BH5", "BH6">>

Eastings == {Num(0), Num(4), NaN}
Northings == {Num(0), Num(2)}

SelectedColumns == <<"LOCA_ID", "ags_file", "LOCA_NATE", "LOCA_NATN">>

\* a two-point section line ((x0, y0), (x1, y1))
TwoPoint(p, q) == [kind |-> "two-point", points |-> <<p, q>>]

SectionLines ==
    {None, TwoPoint(<<4, 0>>, <<4, 0>>), TwoPoint(<<0, 0>>, <<4, 0>>),
     TwoPoint(<<0, 2>>, <<0, 0>>)}

LastShapes == <<EmptyDict, [type |-> "Rectangle", coordinates |-> <<BoxRing>>],
                [type |-> "LineString", coordinates |-> EastWest]>>

\* the decomposition is modelled for the selections whose axis is a coordinate axis
representable(df) ==
    complete_positions(df) => principal_axis(positions(df)) # "oblique"

SectionInit == SectionIdle /\ ParserInit /\ PipelineIdle /\ SelectIdle /\ ZoneIdle

\* one more borehole is selected
AddBorehole(e, n) ==
    /\ section.fn = "none"
    /\ Len(section.selected.rows) < MaxBoreholes
    /\ section' = [section EXCEPT !.selected =
            DataFrame(SelectedColumns,
                      Append(section.selected.rows,
                             <<Str(BoreholeIds[Len(section.selected.rows) + 1]),
                               Str("A.ags"), e, n>>))]

\* src/section_logic.py: generate_section_plot derives its section line
GenerateSectionPlot(last_shape, sign) ==
    /\ section.fn = "none"
    /\ representable(section.selected)
    /\ section' = [selected |-> section.selected, fn |-> "generate_section_plot",
                   last_shape |-> last_shape,
                   out |-> generate_section_plot(section.selected, last_shape, sign)]

\* src/old_files/section_logic.py: calculate_section_line
CalculateSectionLine(last_shape, sign) ==
    /\ section.fn = "none"
    /\ representable(section.selected)
    /\ section' = [selected |-> section.selected, fn |-> "calculate_section_line",
                   last_shape |-> last_shape,
                   out |-> calculate_section_line(section.selected, last_shape, sign)]

\* src/visualization/mapping/map_utils.py: calculate_pca_line on the positions
\* of the selection
CalculatePcaLine(sign) ==
    /\ section.fn = "none"
    /\ representable(section.selected)
    /\ section' = [selected |-> section.selected, fn |-> "calculate_pca_line",
                   last_shape |-> EmptyDict,
                   out |-> calculate_pca_line(section.selected, sign)]

\* src/section_plot.py: plot_section_from_ags lays the boreholes out
PlotBoreholeSections(section_line) ==
    /\ section.fn = "none"
    /\ section' = [selected |-> section.selected, fn |-> "plot_borehole_sections",
                   section_line |-> section_line,
                   out |-> plot_section_from_ags(section.selected, section_line)]

sectionRest == <<parserVars, pipelineVars, selectVars, zoneVars>>

NextSection ==
    \/ (\E e \in Eastings, n \in Northings : AddBorehole(e, n) /\ UNCHANGED sectionRest)
    \/ (\E i \in 1..Len(LastShapes), sign \in {-1, 1} :
            GenerateSectionPlot(LastShapes[i], sign) /\ UNCHANGED sectionRest)
    \/ (\E i \in 1..Len(LastShapes), sign \in {-1, 1} :
            CalculateSectionLine(LastShapes[i], sign) /\ UNCHANGED sectionRest)
    \/ (\E sign \in {-1, 1} : CalculatePcaLine(sign) /\ UNCHANGED sectionRest)
    \/ (\E line \in SectionLines : PlotBoreholeSections(line) /\ UNCHANGED sectionRest)

SpecSection == SectionInit /\ [][NextSection]_vars

-----------------------------------------------------------------------------
(* Vocabulary of the claims *)

\* how often v occurs in the sequence s
count(s, v) == Cardinality({i \in 1..Len(s) : s[i] = v})

distinct(s) == \A i, j \in 1..Len(s) : s[i] = s[j] => i = j

has_group(rows, g) ==
    \E i \in 1..Len(rows) : Len(rows[i]) >= 2 /\ rows[i][1] = "GROUP" /\ rows[i][2] = g

\* parse_ags_file gave the file at position i a non-empty table for group g
has_table(i, g) == ~Raised(results[i]) /\ ~IsNone(results[i].tables[g])

\* the core entry point has returned and every file had parsed
Merged ==
    /\ pc = "returned"
    /\ Len(files) > 0
    /\ \A i \in 1..Len(files) : ~Raised(results[i])

ReturnedData == pc = "returned" /\ ~IsNone(returned)

SharedId == Str("BH1")

\* both files of a two-file upload contributed exactly one LOCA row with id X
BothContribute(X) ==
    /\ Merged
    /\ Len(files) = 2
    /\ \A i \in 1..2 :
          /\ has_table(i, "LOCA")
          /\ count(column(results[i].tables.LOCA, "LOCA_ID"), X) = 1

suffixed(X, name) == Str(X.s \o "_" \o suffix_of(name))

-----------------------------------------------------------------------------
(* Claims about the merge and the pipeline (specification Spec) *)

\* C1: merging two files that both contain a LOCA row with the same id X yields
\* exactly one row with LOCA_ID X, contributed by the first file, and exactly one
\* row with LOCA_ID X_<suffix2>, suffix2 being the second file's name without its
\* extension, cut to 19 characters; original_LOCA_ID is X on both rows.
C1_CollisionUsesSecondFileName ==
    BothContribute(SharedId) =>
        LET ids == column(combined.LOCA, "LOCA_ID")
            orig == column(combined.LOCA, "original_LOCA_ID")
            X2 == suffixed(SharedId, files[2].name)
        IN  /\ count(ids, SharedId) = 1
            /\ count(ids, X2) = 1
            /\ \A r \in 1..Len(ids) :
                  /\ ids[r] = SharedId => r <= Len(results[1].tables.LOCA.rows)
                  /\ ids[r] \in {SharedId, X2} => orig[r] = SharedId

\* C2: after a merge no two rows of the merged location table have the same
\* LOCA_ID, whatever the files hold (the core merge and the loader alike).
C2_MergedIdsUnique ==
    /\ Merged => distinct(column(combined.LOCA, "LOCA_ID"))
    /\ (pc = "loaded" /\ ~Raised(loaded)) =>
          distinct(column(loaded.loca_df, "LOCA_ID"))

ScenarioA == UploadedFile("A.ags", Layout("en", <<BH1, BH2>>, TRUE, FALSE))
ScenarioB == UploadedFile("B.ags", Layout("en", <<BH1>>, TRUE, FALSE))

\* C3: for file A with LOCA rows BH1 and BH2 and file B with LOCA row BH1, all
\* with valid Easting / Northing and no direct latitude / longitude columns, the
\* pipeline returns a location table of exactly 3 rows with the LOCA_IDs BH1,
\* BH2 and BH1_B, every row with non-null lat and lon.
C3_ScenarioTwoFiles ==
    (pc = "returned" /\ files = <<ScenarioA, ScenarioB>>) =>
        /\ ~IsNone(returned)
        /\ Len(returned.loca_df.rows) = 3
        /\ Range(column(returned.loca_df, "LOCA_ID"))
              = {Str("BH1"), Str("BH2"), Str("BH1_B")}
        /\ \A r \in 1..3 :
              /\ ~isna(cell(returned.loca_df, r, "lat"))
              /\ ~isna(cell(returned.loca_df, r, "lon"))

\* C7 as claimed: the merge fails with the no-valid-data condition exactly when
\* both the merged GEOL table and the merged LOCA table are empty.
C7_FailsOnlyWhenBothEmpty ==
    Merged =>
        (Raised(outcome) <=>
            (Len(combined.GEOL.rows) = 0 /\ Len(combined.LOCA.rows) = 0))

\* C7 as amended: the merge fails with the no-valid-data condition exactly when
\* the merged GEOL table or the merged LOCA table is empty; when both have rows
\* the caller receives the merged dataset, also when ABBR is missing.
C7_FailsWhenEitherEmpty ==
    Merged =>
        /\ Raised(outcome) <=>
              (Len(combined.GEOL.rows) = 0 \/ Len(combined.LOCA.rows) = 0)
        /\ Raised(outcome) =>
              /\ outcome.exc = "ValueError: No valid GEOL or LOCA data"
              /\ IsNone(returned)
        /\ ~Raised(outcome) =>
              /\ returned = outcome
              /\ returned.geol_df = combined.GEOL
              /\ returned.loca_df = combined.LOCA
              /\ returned.abbr_df = combined.ABBR

\* C7 witness: every file parsed, the merged LOCA table has rows, the merged
\* GEOL table has none, and the merge failed.
C7_Witness ==
    /\ Merged
    /\ Len(combined.LOCA.rows) > 0
    /\ Len(combined.GEOL.rows) = 0
    /\ Raised(outcome)

\* C8: when no uploaded file has a GEOL group, parse_ags_files hands the caller
\* None (the exception raised inside does not escape), whatever else the files
\* contain.
C8_NoGeolGroupReturnsNone ==
    (pc = "returned" /\ \A i \in 1..Len(files) : ~has_group(files[i].content, "GEOL"))
        => (IsNone(returned) /\ (Len(files) > 0 => Raised(outcome)))

\* C8 witness: a single uploaded file without GEOL group whose LOCA group was
\* materialized, and the caller received None.
C8_Witness ==
    /\ pc = "returned"
    /\ Len(files) = 1
    /\ ~has_group(files[1].content, "GEOL")
    /\ has_table(1, "LOCA")
    /\ IsNone(returned)

\* C9: a file that yields no usable group does not abort the batch: the LOCA
\* rows of every other file are in the merged result.
C9_BadFileDoesNotAbort ==
    (pc = "returned" /\ \E i \in 1..Len(files) : Raised(results[i])) =>
        \A j \in 1..Len(files) :
            (has_table(j, "LOCA") /\ has_table(j, "GEOL")) =>
                /\ ~IsNone(returned)
                /\ Range(column(results[j].tables.LOCA, "LOCA_ID"))
                      \subseteq Range(column(returned.loca_df, "original_LOCA_ID"))

\* C10: after coordinate conversion every row of the location table has non-null
\* lat and lon (a row whose OSGB36 conversion raised is not in the table).
C10_FailedRowsDropped ==
    ReturnedData =>
        \A r \in 1..Len(returned.loca_df.rows) :
            /\ ~isna(cell(returned.loca_df, r, "lat"))
            /\ ~isna(cell(returned.loca_df, r, "lon"))

-----------------------------------------------------------------------------
(* Claims about the group parsers (specification SpecParse) *)

is_row(i, tag) == Len(content[i]) >= 1 /\ content[i][1] = tag

has_target == \E i \in 1..Len(content) : content[i] = <<"GROUP", Target>>

\* the row that opens the target group
target_start ==
    CHOOSE i \in 1..Len(content) :
        /\ content[i] = <<"GROUP", Target>>
        /\ \A j \in 1..(i - 1) : content[j] # <<"GROUP", Target>>

\* row i lies inside the target group: after its GROUP row, before the next one
in_target(i) ==
    /\ has_target
    /\ i > target_start
    /\ \A j \in (target_start + 1)..i : ~is_row(j, "GROUP")

heading_rows == {i \in 1..Len(content) : in_target(i) /\ is_row(i, "HEADING")}

data_rows == {i \in 1..Len(content) : in_target(i) /\ is_row(i, "DATA")}

\* the rows of the group are well formed one by one: heading names are not
\* repeated within a HEADING row and every DATA row carries a value cell
plain_rows ==
    /\ \A i \in heading_rows : Len(content[i]) >= 2 /\ distinct(rest(content[i]))
    /\ \A i \in data_rows : Len(content[i]) >= 2

\* C4: when the target group has a HEADING row and at least one DATA row,
\* parse_ags_group returns a table in which the key set of every record is
\* exactly the table's headings, wherever the rows stand inside the group
\* (several HEADING rows, DATA rows ahead of a HEADING row).
C4_RecordKeysAreHeadings ==
    (/\ parsed.fn = "parse_ags_group"
     /\ heading_rows # {}
     /\ data_rows # {}
     /\ plain_rows) =>
        /\ ~IsNone(parsed.out)
        /\ \A r \in 1..Len(parsed.out.data) :
              DOMAIN parsed.out.data[r] = Range(parsed.out.headings)

\* the k-th DATA row of the target group, in file order
nth_data_row(k) ==
    CHOOSE i \in data_rows : Cardinality({j \in data_rows : j <= i}) = k

\* the record the DATA row yields under the headings hs
record_of(row, hs) ==
    [h \in Range(hs) |->
        LET i == CHOOSE j \in 1..Len(hs) : hs[j] = h
        IN  IF i + 1 <= Len(row) THEN strip(row[i + 1]) ELSE ""]

\* C5: inside the target group every DATA row after the HEADING row yields
\* exactly one record, in file order: the value under heading i is cell i+1
\* stripped, surplus cells are discarded and headings without a cell get the
\* empty string, down to a DATA row with no value cells at all.
C5_OneRecordPerDataRow ==
    (/\ parsed.fn = "parse_ags_group"
     /\ Cardinality(heading_rows) = 1
     /\ \A h \in heading_rows :
           /\ distinct(rest(content[h]))
           /\ \A d \in data_rows : d > h
     /\ data_rows # {}) =>
        LET hs == rest(content[CHOOSE h \in heading_rows : TRUE])
        IN  /\ ~IsNone(parsed.out)
            /\ Len(parsed.out.data) = Cardinality(data_rows)
            /\ \A k \in 1..Len(parsed.out.data) :
                  parsed.out.data[k] = record_of(content[nth_data_row(k)], hs)

\* C6: whatever the rows, parsing a group returns a table or the absent result;
\* it never raises because of the structure of the content.
C6_ParsingNeverRaises ==
    parsed.fn \in {"parse_ags_group", "parse_group"} => ~Raised(parsed.out)

-----------------------------------------------------------------------------
(* Claims about rows with a direct latitude / longitude pair (Spec) *)

\* the file at position i holds the LOCA row of BH3: no Easting, but the
\* direct pair LOCA_LAT 51, LOCA_LON -1
holds_direct_row(i) ==
    \E r \in 1..Len(files[i].content) :
        files[i].content[r] = LocaDataRow("full", BH3NoEast)

\* the table df has a row for BH3 whose lat / lon are the direct pair
has_direct_row(df) ==
    /\ has_column(df, "lat") /\ has_column(df, "lon")
    /\ \E r \in 1..Len(df.rows) :
          /\ cell(df, r, "LOCA_ID") = Str("BH3")
          /\ cell(df, r, "lat") = Num(51)
          /\ cell(df, r, "lon") = Num(-1)

\* C11: a LOCA row without a usable Easting that supplies a valid LOCA_LAT /
\* LOCA_LON pair is in the materialized and in the merged location table with
\* lat / lon taken from the pair, also when other rows of its file have a
\* valid Easting / Northing.
C11_DirectPairRowRetained ==
    \A i \in 1..Len(files) :
        (pc = "returned" /\ holds_direct_row(i)) =>
            /\ has_table(i, "LOCA")
            /\ has_direct_row(results[i].tables.LOCA)
            /\ ~IsNone(returned)
            /\ has_direct_row(returned.loca_df)

-----------------------------------------------------------------------------
(* Vocabulary of the selection claims *)

\* the last event called a filter
filtered == selection.fn # "none"

recognized == {"Rectangle", "Polygon", "LineString", "Circle"}

\* the shape has fewer vertices than its type needs
too_few_vertices(geom) ==
    /\ has_key(geom, "type") /\ has_key(geom, "coordinates")
    /\ \/ geom.type \in {"Rectangle", "Polygon"}
          /\ (Len(geom.coordinates) = 0 \/ Len(geom.coordinates[1]) < 3)
       \/ geom.type = "LineString" /\ Len(geom.coordinates) < 2

\* None, an unrecognized type, or a malformed geometry
unusable(geom) ==
    \/ geom = None
    \/ ~has_key(geom, "type")
    \/ geom.type \notin recognized
    \/ ~has_key(geom, "coordinates")
    \/ too_few_vertices(geom)

\* the ids of the rows of a returned table
ids_of(df) == IF empty(df) THEN {} ELSE {cell(df, r, "LOCA_ID").s : r \in 1..Len(df.rows)}

\* C12: whenever a filter is called with no shape, a shape of an unrecognized
\* type, a malformed shape, or an empty candidate table, it raises nothing and
\* returns an empty selection.
C12_DegenerateInputGivesEmpty ==
    filtered /\ (unusable(selection.geom) \/ empty(selection.table))
        => ~Raised(selection.out) /\ empty(selection.out)

\* the call evaluated afresh: no entry in any cache
uncached(geom, loca_df) ==
    mapping_filter_selection_by_shape(NoEntry, <<>>, geom, loca_df)

\* C13: every call of the cached filter returns the rows a fresh, uncached
\* evaluation of the same shape over the same table returns, whatever was
\* filtered earlier in the session.
C13_ResultIndependentOfEarlierCalls ==
    selection.fn = "mapping"
        => selection.out.rows = uncached(selection.geom, selection.table).rows

\* the last call filtered by a Rectangle that has a ring with vertices
rectangle_call ==
    /\ filtered
    /\ selection.geom # None
    /\ has_key(selection.geom, "type")
    /\ selection.geom.type = "Rectangle"
    /\ has_key(selection.geom, "coordinates")
    /\ Len(selection.geom.coordinates) > 0
    /\ Len(selection.geom.coordinates[1]) > 0

\* v lies between the smallest and the largest of vs, both included
between_ends(v, vs) == \E a, b \in Range(vs) : a <= v /\ v <= b

\* the row has a position inside the closed bounding box of the ring
row_in_ring_box(df, r, coords) ==
    /\ has_point(df, r)
    /\ between_ends(cell(df, r, "lat").n, lats(coords))
    /\ between_ends(cell(df, r, "lon").n, lons(coords))

\* C14: a Rectangle over a table with lat and lon selects exactly the rows whose
\* lat and lon lie within the ring's latitude and longitude ranges, both ends
\* included, in table order.
C14_RectangleInclusiveBounds ==
    rectangle_call /\ has_latlon(selection.table)
        => /\ ~Raised(selection.out)
           /\ selection.out.rows =
                 select(selection.table.rows,
                        [r \in 1..Len(selection.table.rows) |->
                            row_in_ring_box(selection.table, r,
                                            selection.geom.coordinates[1])], 1)

\* a rectangle whose corner is BH_A's position selected BH_A and none of the
\* four candidates that lie outside exactly one bound
C14_Witness ==
    /\ rectangle_call
    /\ selection.table = MainTable
    /\ ~Raised(selection.out)
    /\ {"BH_A", "BH_B", "BH_C"} \subseteq ids_of(selection.out)
    /\ ids_of(selection.out) \cap {"BH_D", "BH_E", "BH_F", "BH_G"} = {}

\* the last event was a click on the marker of a candidate
clicked == selection.fn = "bridge"

\* the candidate lies within the circle's radius of 0.5 m of its center <<lon, lat>>:
\* twice its distance in metres is at most 1
within_circle(df, r, center) ==
    /\ has_point(df, r)
    /\ 4 * MetresPerUnit * MetresPerUnit * dists(df, r, center[2], center[1]) <= 1

\* C15: after a click on a candidate's marker the Circle filter returned the
\* candidates within the radius of the clicked position, and the stored
\* selection is exactly one row, a candidate closest to that position (one at
\* the clicked position itself).
C15_ClickSelectsClosest ==
    clicked
        => /\ ~Raised(selection.out)
           /\ selection.out.rows =
                 select(selection.table.rows,
                        [r \in 1..Len(selection.table.rows) |->
                            within_circle(selection.table, r,
                                          selection.geom.coordinates)], 1)
           /\ Len(session.selected_boreholes.rows) = 1
           /\ within_circle(session.selected_boreholes, 1, selection.geom.coordinates)

\* the last call filtered by a LineString with at least two vertices and
\* returned
line_call ==
    /\ filtered
    /\ selection.geom # None
    /\ has_key(selection.geom, "type")
    /\ selection.geom.type = "LineString"
    /\ has_key(selection.geom, "coordinates")
    /\ Len(selection.geom.coordinates) >= 2
    /\ has_latlon(selection.table)
    /\ ~Raised(selection.out)

\* the projected drawn line of the last call
drawn_line == [i \in 1..Len(selection.geom.coordinates) |->
                  project(selection.geom.coordinates[i])]

\* the projected position of row r of the last call's table
projected(r) == project(point_of(selection.table, r))

\* the row's projected point lies on the drawn line, end points included
on_drawn_line(r) ==
    \E i \in 1..(Len(drawn_line) - 1) :
        on_segment(drawn_line[i], drawn_line[i + 1], projected(r))

\* the row's projected point is d metres or more from the drawn line
at_least(r, d) == ~near(drawn_line, projected(r), d * d)

selected_row(r) == cell(selection.table, r, "LOCA_ID").s \in ids_of(selection.out)

\* C16: a LineString selects every candidate on the drawn line, selects no
\* candidate 100 m or more from it, and (on every call) selects no candidate
\* exactly 50 m from it.
C16_CorridorSelection ==
    line_call
        => \A r \in 1..Len(selection.table.rows) :
              has_point(selection.table, r)
                  => /\ on_drawn_line(r) => selected_row(r)
                     /\ at_least(r, 2 * buffer_m) => ~selected_row(r)
                     /\ (at_least(r, buffer_m) /\ ~at_least(r, buffer_m + 1))
                            => ~selected_row(r)

-----------------------------------------------------------------------------
(* Vocabulary of the section claims *)

\* the last step derived a section line by PCA
pca_derived ==
    /\ section.fn \in {"generate_section_plot", "calculate_section_line",
                       "calculate_pca_line"}
    /\ section.out.kind = "line"

\* the projections of the selected boreholes on the emitted axis, in the units
\* of the emitted distances
borehole_projections ==
    [i \in 1..Len(section.selected.rows) |->
        10 * pca_coords_0(positions(section.selected), i, section.out.direction)]

\* max - min of the projections
projected_range == max_of(borehole_projections) - min_of(borehole_projections)

\* C17: a section line derived by PCA from at least 2 boreholes has its end
\* points on the axis at min - 0.2 * range and max + 0.2 * range of the
\* projections, so every borehole's projection lies between the end points.
C17_EndpointsExtendProjectedRange ==
    pca_derived /\ Len(section.selected.rows) >= 2
        => /\ {section.out.start, section.out.end} =
                 {min_of(borehole_projections) - (2 * projected_range) \div 10,
                  max_of(borehole_projections) + (2 * projected_range) \div 10}
           /\ \A i \in 1..Len(section.selected.rows) :
                 /\ Min(section.out.start, section.out.end) <= borehole_projections[i]
                 /\ borehole_projections[i] <= Max(section.out.start, section.out.end)

\* the last step derived a section line (or failed to) without a drawn line
derived_without_line ==
    /\ section.fn \in {"generate_section_plot", "calculate_section_line",
                       "calculate_pca_line"}
    /\ ~is_line_string(section.last_shape)

\* the selected boreholes with a complete, non-null Easting / Northing
complete_boreholes ==
    IF has_all_columns(section.selected, {"LOCA_NATE", "LOCA_NATN"})
    THEN {r \in 1..Len(section.selected.rows) : located(section.selected, r)}
    ELSE {}

\* C18: with no drawn line and fewer than 2 boreholes with a complete position,
\* the derivation raises nothing and yields no section line.
C18_TooFewBoreholesGiveNoLine ==
    derived_without_line /\ Cardinality(complete_boreholes) < 2
        => section.out = None

\* the last step laid the boreholes out along a two-point line of zero length
zero_length_line ==
    /\ section.fn = "plot_borehole_sections"
    /\ section.section_line # None
    /\ section.section_line.points[1] = section.section_line.points[2]

\* the step gave distances
laid_out == ~Raised(section.out) /\ section.out # None

\* the Easting of the selected borehole id
easting_of(id) ==
    cell(section.selected,
         CHOOSE r \in 1..Len(section.selected.rows) :
             cell(section.selected, r, "LOCA_ID").s = id,
         "LOCA_NATE").n

\* the selected boreholes that have a position, by row number
located_rows == {r \in 1..Len(section.selected.rows) : located(section.selected, r)}

\* the first of them in upload order
first_in_upload_order == CHOOSE r \in located_rows : \A q \in located_rows : r <= q

\* the smallest Easting among them
smallest_easting ==
    CHOOSE e \in {cell(section.selected, r, "LOCA_NATE").n : r \in located_rows} :
        \A q \in located_rows : e <= cell(section.selected, q, "LOCA_NATE").n

\* C19: for a two-point section line of zero length no error is raised and the
\* distance of every borehole is its Easting minus the Easting of the first
\* borehole in upload order.
C19_OffsetFromFirstUploaded ==
    zero_length_line
        => /\ ~Raised(section.out)
           /\ laid_out =>
                 \A i \in 1..Len(section.out.of) :
                     section.out.of[i].rel_x =
                         easting_of(section.out.of[i].id)
                             - cell(section.selected, first_in_upload_order, "LOCA_NATE").n

\* C19 as the code has it: for a two-point section line of zero length no error
\* is raised and the distance of every borehole is its Easting minus the
\* smallest Easting among the plotted boreholes, so no distance is negative and
\* the westernmost borehole is at 0.
C19_OffsetFromWesternmost ==
    zero_length_line
        => /\ ~Raised(section.out)
           /\ located_rows # {} => laid_out
           /\ laid_out =>
                 \A i \in 1..Len(section.out.of) :
                     /\ section.out.of[i].rel_x =
                            easting_of(section.out.of[i].id) - smallest_easting
                     /\ section.out.of[i].rel_x >= 0

\* boreholes were laid out along a zero-length line and the first borehole in
\* upload order is not the westernmost
C19_Witness ==
    /\ zero_length_line
    /\ laid_out
    /\ Len(section.out.of) >= 2
    /\ cell(section.selected, first_in_upload_order, "LOCA_NATE").n > smallest_easting

-----------------------------------------------------------------------------
(* Claims about the worker pool (specification Spec) *)

\* C20: when the merge has run, every file's result had arrived, and the merged
\* tables are those of parsing the files one after the other in upload order,
\* in whatever order the workers finished.
C20_MergeInUploadOrder ==
    pc = "returned" /\ Len(files) > 0
        => /\ Len(finished) = Len(files)
           /\ results = sequential(files)
           /\ Merged =>
                 combined = merge_results(MergeStart, sequential(files),
                                          names_of(files), 1).combined

\* two files that share a borehole id were merged after the worker of the
\* second file finished first
C20_Witness ==
    /\ BothContribute(SharedId)
    /\ finished = <<2, 1>>
    /\ ReturnedData

-----------------------------------------------------------------------------
(* Claims about the accumulated id set (specification Spec) *)

\* rows r1 < r2 of a merged location table repeat one id of one file
repeats(orig, r1, r2) == r1 < r2 /\ orig[r1] = orig[r2] /\ orig[r2].k = "str"

\* C24: the id of each LOCA row joins the accumulated id set before the next
\* row is tested, so a row that repeats the id X of an earlier row of its own
\* file is rewritten to X_<suffix> (the core merge and the loader alike).
C24_RepeatedIdWithinFileRewritten ==
    /\ Merged /\ has_table(1, "LOCA") =>
          \A r1, r2 \in 1..Len(results[1].tables.LOCA.rows) :
              repeats(column(combined.LOCA, "original_LOCA_ID"), r1, r2) =>
                  column(combined.LOCA, "LOCA_ID")[r2]
                      = suffixed(column(combined.LOCA, "original_LOCA_ID")[r2],
                                 files[1].name)
    /\ (pc = "loaded" /\ ~Raised(loaded)) =>
          \A r1, r2 \in 1..Len(loaded.loca_df.rows) :
              /\ repeats(column(loaded.loca_df, "original_LOCA_ID"), r1, r2)
              /\ cell(loaded.loca_df, r1, "ags_file") = cell(loaded.loca_df, r2, "ags_file")
              => cell(loaded.loca_df, r2, "LOCA_ID")
                    = suffixed(cell(loaded.loca_df, r2, "original_LOCA_ID"),
                               cell(loaded.loca_df, r2, "ags_file").s)

\* both files of a two-file upload contributed a LOCA and a GEOL table, and the
\* merge returned the dataset with every row of both
BothHaveStrata ==
    /\ Merged
    /\ ReturnedData
    /\ Len(files) = 2
    /\ \A i \in 1..2 : has_table(i, "LOCA") /\ has_table(i, "GEOL")
    /\ \A g \in {"LOCA", "GEOL"} :
          Len(combined[g].rows)
              = Len(results[1].tables[g].rows) + Len(results[2].tables[g].rows)

\* the place in a merged table of row r of the second file's table for group g
second_file_row(g, r) == Len(results[1].tables[g].rows) + r

\* C25: in the merged dataset each GEOL row of a file carries the identifier
\* the merged location table gives to that file's LOCA row: when the second
\* file's row X was renamed, its GEOL rows for X name the renamed row and not
\* the first file's row X.
C25_GeolFollowsRenamedLoca ==
    BothHaveStrata =>
        \A g \in 1..Len(results[2].tables.GEOL.rows) :
            \A r \in 1..Len(results[2].tables.LOCA.rows) :
                cell(results[2].tables.GEOL, g, "LOCA_ID")
                        = cell(results[2].tables.LOCA, r, "LOCA_ID")
                    => cell(combined.GEOL, second_file_row("GEOL", g), "LOCA_ID")
                        = cell(combined.LOCA, second_file_row("LOCA", r), "LOCA_ID")

-----------------------------------------------------------------------------
(* Claims about the borehole log (specification Spec) *)

LogRendered == log # NotRendered

distinct_names == \A i, j \in 1..Len(files) : files[i].name = files[j].name => i = j

\* the file that contributed the location row the log was asked for
own_file == CHOOSE i \in 1..Len(files) :
                Str(files[i].name) = cell(loaded.loca_df, log.row, "ags_file")

\* the identifier that row has in its file
own_id == strip(cell(loaded.loca_df, log.row, "original_LOCA_ID").s)

\* the rows of group g the borehole has in its own file
own_rows(g) == rows_of(section_table(files[own_file].content, g), own_id)

\* the borehole's own file holds LOCA and GEOL rows under its identifier
has_own_rows ==
    \A g \in {"LOCA", "GEOL"} :
        /\ ~Raised(section_table(files[own_file].content, g))
        /\ has_column(section_table(files[own_file].content, g), "LOCA_ID")
        /\ ~empty(own_rows(g))

\* the location row the log was asked for was renamed by collision resolution
LogOfRenamed ==
    /\ LogRendered
    /\ cell(loaded.loca_df, log.row, "LOCA_ID")
           # cell(loaded.loca_df, log.row, "original_LOCA_ID")

\* C26: the log of a borehole is drawn from its own file (the one that
\* contributed its location row) and from the LOCA and GEOL rows that file
\* holds under the pre-collision identifier, also for a renamed borehole.
C26_LogFromOwnFile ==
    LogRendered /\ distinct_names /\ has_own_rows
        => /\ log.out.kind = "log"
           /\ log.out.file = files[own_file].name
           /\ log.out.loca_bh = own_rows("LOCA")
           /\ log.out.geol_bh = own_rows("GEOL")

-----------------------------------------------------------------------------
(* Claims about the numeric coercion (specification Spec) *)

\* the value the materialized table should hold for the text v of a column
\* with heading c under the type codes types
coerced_by_type(c, v, types) ==
    IF is_numeric_column(c, types) THEN to_numeric(Str(v)) ELSE Str(v)

\* the table df is the parsed group with every column coerced by its type code
\* and nothing else changed
coerced_by_types(df, group) ==
    /\ Len(df.rows) = Len(group.data)
    /\ \A r \in 1..Len(group.data) :
          \A c \in DOMAIN group.data[r] :
              has_column(df, c) =>
                  cell(df, r, c) = coerced_by_type(c, group.data[r][c], group.types)

\* C27: materializing a group coerces exactly the columns whose type code
\* (trimmed, upper-cased) is numeric, a value that is no number becomes null,
\* and the table has as many rows as the parsed group has records.
C27_CoercionByTypeCode ==
    \A i \in 1..Len(results) :
        \A g \in Range(GroupNames) :
            (results[i] # Pending /\ has_table(i, g)) =>
                coerced_by_types(results[i].tables[g],
                                 parse_ags_group(files[i].content, g))

-----------------------------------------------------------------------------
(* Claims about the scan of a group (specification SpecParse) *)

parsers == {"parse_ags_group", "parse_group", "old_parse_group"}

\* row i is a GROUP row that names a group other than the target
names_other_group(i) ==
    is_row(i, "GROUP") /\ Len(content[i]) >= 2 /\ content[i][2] # Target

\* row i lies between the GROUP row that opens the target group and the first
\* later GROUP row that names another group
in_scan(i) ==
    /\ has_target
    /\ i > target_start
    /\ \A j \in (target_start + 1)..i : ~names_other_group(j)

scan_headings == {i \in 1..Len(content) : in_scan(i) /\ is_row(i, "HEADING")}

scan_data == {i \in 1..Len(content) : in_scan(i) /\ is_row(i, "DATA")}

\* the table rows the scan should give are well formed: HEADING rows of one
\* width ahead of every DATA row, and DATA rows of that width
plain_scan ==
    /\ scan_headings # {}
    /\ \A h \in scan_headings :
          /\ Len(content[h]) = 3
          /\ distinct(rest(content[h]))
          /\ \A d \in scan_data : h < d
    /\ \A d \in scan_data : Len(content[d]) = 3

\* row i is a GROUP row with no group-name cell
bare_group(i) == is_row(i, "GROUP") /\ Len(content[i]) < 2

\* every GROUP row of the content names a group
all_groups_named == \A i \in 1..Len(content) : ~bare_group(i)

\* the number of records of a parse result (none for the absent result)
records(out) ==
    IF out.kind = "AGSGroup" THEN Len(out.data)
    ELSE IF out.kind = "DataFrame" THEN Len(out.rows)
    ELSE 0

\* C21: the scan runs from the GROUP row naming the target to the first later
\* GROUP row naming another group; exactly the DATA rows between the two
\* contribute a record each, also those after a GROUP row that names the target
\* again.
C21_ScanEndsAtOtherGroup ==
    parsed.fn \in parsers /\ plain_scan /\ all_groups_named
        => ~Raised(parsed.out) /\ records(parsed.out) = Cardinality(scan_data)

\* a GROUP row without a name cell lies inside the target group, and no other
\* GROUP row follows the one that opens the target group
bare_group_in_target ==
    /\ \E i \in 1..Len(content) : in_scan(i) /\ bare_group(i)
    /\ \A i \in 1..Len(content) :
          i > target_start /\ is_row(i, "GROUP") => bare_group(i)

\* C22: a GROUP row with no group-name cell neither starts nor ends a group;
\* the DATA rows after it inside the target group are still collected.
C22_BareGroupRowIgnored ==
    parsed.fn \in {"parse_ags_group", "parse_group"}
        /\ plain_scan /\ bare_group_in_target
        => ~Raised(parsed.out) /\ records(parsed.out) = Cardinality(scan_data)

\* the target group is opened once and holds HEADING rows but no DATA row
heading_only ==
    /\ plain_scan
    /\ scan_data = {}
    /\ all_groups_named
    /\ \A i \in 1..Len(content) :
          i > target_start /\ is_row(i, "GROUP") => names_other_group(i)

\* the headings a parse result carries
headings_of(out) ==
    IF out.kind = "AGSGroup" THEN out.headings
    ELSE IF out.kind = "DataFrame" THEN out.columns
    ELSE <<>>

\* what each parser returns for a content that has no target group
absent_result(fn) == IF fn = "parse_ags_group" THEN None ELSE EmptyFrame

\* C23: a target group with a HEADING row and no DATA row gives an empty
\* table that carries the headings, different from the result for a content
\* without the group, and no error.
C23_HeadingOnlyGivesEmptyTable ==
    parsed.fn \in {"parse_ags_group", "parse_group"} /\ heading_only
        => /\ parsed.out.kind \in {"AGSGroup", "DataFrame"}
           /\ records(parsed.out) = 0
           /\ Len(headings_of(parsed.out)) = 2
           /\ parsed.out # absent_result(parsed.fn)

-----------------------------------------------------------------------------
(* The UTM zone of a corridor selection: get_utm_transformer of
   src/visualization/mapping/map_utils.py and the LineString branch of
   src/map_utils.py.  Latitudes and longitudes are whole degrees; a median is
   kept in half degrees, since the median of an even number of values is the
   mean of the two middle ones. *)

\* the k-th smallest value of the sequence s
kth(s, k) ==
    CHOOSE x \in Range(s) :
        /\ Cardinality({i \in 1..Len(s) : s[i] < x}) < k
        /\ Cardinality({i \in 1..Len(s) : s[i] <= x}) >= k

\* twice series.median()
median2(s) == kth(s, (Len(s) + 1) \div 2) + kth(s, (Len(s) + 2) \div 2)

\* int(a / b) for b > 0: the quotient cut towards zero
int_div(a, b) == IF a >= 0 THEN a \div b ELSE -((-a) \div b)

\* int((median_lon + 180) / 6) + 1 for a median of lon2 half degrees
utm_zone_of(lon2) == int_div(lon2 + 360, 12) + 1

\* the number of f"EPSG:{32600 + utm_zone if median_lat >= 0 else 32700 + utm_zone}"
utm_crs_of(lat2, utm_zone) ==
    IF lat2 >= 0 THEN 32600 + utm_zone ELSE 32700 + utm_zone

\* the zone and the CRS derived by the function fn from the medians
zone_of(fn, lat2, lon2) ==
    [fn |-> fn, median_lat |-> lat2, median_lon |-> lon2,
     utm_zone |-> utm_zone_of(lon2),
     utm_crs |-> utm_crs_of(lat2, utm_zone_of(lon2))]

Latitudes == {-45, 0, 51}

Longitudes == {-180, -179, -175, -174, -7, -6, -1, 0, 5, 6, 174, 179, 180}

\* the latitudes and longitudes of n candidates, n at least 1
Positions(n) == [1..n -> Latitudes \X Longitudes]

lat_column(ps) == [i \in 1..Len(ps) |-> ps[i][1]]

lon_column(ps) == [i \in 1..Len(ps) |-> ps[i][2]]

\* mapping: get_utm_transformer(loca_df["lat"].median(), loca_df["lon"].median())
GetUtmTransformer(ps) ==
    /\ utm = NoZone
    /\ utm' = zone_of("get_utm_transformer", median2(lat_column(ps)),
                      median2(lon_column(ps)))

\* src/map_utils.py: the LineString branch derives the zone itself
LineStringZone(ps) ==
    /\ utm = NoZone
    /\ utm' = zone_of("filter_selection_by_shape", median2(lat_column(ps)),
                      median2(lon_column(ps)))

zoneRest == <<parserVars, pipelineVars, selectVars, sectionVars>>

NextZone ==
    \/ (\E n \in 1..MaxCandidates : \E ps \in Positions(n) :
            GetUtmTransformer(ps) /\ UNCHANGED zoneRest)
    \/ (\E n \in 1..MaxCandidates : \E ps \in Positions(n) :
            LineStringZone(ps) /\ UNCHANGED zoneRest)

ZoneInit == ZoneIdle /\ ParserInit /\ PipelineIdle /\ SelectIdle /\ SectionIdle

SpecZone == ZoneInit /\ [][NextZone]_vars

-----------------------------------------------------------------------------
(* Claims about the session of the map (specification SpecSelect) *)

\* the last event of the session was a drawing
LastEventDrawing == selection.fn = "map_utils"

\* what the session holds when it belongs to the drawing geom over loca_df alone
session_of(geom, loca_df) ==
    [selected_boreholes |-> filter_selection_by_shape(geom, loca_df),
     last_drawn_shape |-> geom,
     last_shape_hash |-> str_hash(geom)]

-----------------------------------------------------------------------------
(* Claims about the plotting runs (specification SpecPlot) *)

\* the session is as the click on the popup of a borehole left it
PopupClicked == session.last_shape_hash.kind = "loglink"

\* the run that followed the popup click is over
FollowingRunDone == PopupClicked /\ plot.runs = 1

\* C29: after the popup of a borehole of the location table is clicked the
\* selection is that single borehole, and the run that follows renders its log
\* (plot_now is true) without the button being pressed and leaves show_log_plot
\* false.
C29_PopupClickRendersLog ==
    /\ PopupClicked =>
          column(session.selected_boreholes, "LOCA_ID")
              = <<Str(session.last_shape_hash.id)>>
    /\ FollowingRunDone =>
          /\ plot.plot_now
          /\ plot.rendered = draw_plot(<<Str(session.last_shape_hash.id)>>)
          /\ ~plot.show_log_plot

-----------------------------------------------------------------------------
(* Claims about the UTM zone (specification SpecZone) *)

ZoneDerived == utm.fn # "none"

\* C30: for every median longitude in [-180, 180] of a non-empty candidate set
\* the zone number int((median_lon + 180) / 6) + 1 lies in 1..60, and the EPSG
\* code is 32601..32660 for a median latitude of 0 or more and 32701..32760
\* otherwise.
C30_ZoneWithinSixty ==
    ZoneDerived =>
        /\ utm.utm_zone \in 1..60
        /\ utm.median_lat >= 0 => utm.utm_crs \in 32601..32660
        /\ utm.median_lat < 0 => utm.utm_crs \in 32701..32760

====
